---- MODULE Spec2Model ----
(***************************************************************************)
(* A model of the Animal Crossing dialogue mod: the MemoryIPC address      *)
(* translator with its per-OS backends (memory_ipc.py,                     *)
(* macos_memory_reader.py, windows_memory_reader.py), the dialogue codec   *)
(* (parse_ac_text / encode_ac_text in ac_parser_encoder.py) and the watch  *)
(* loop (watch_dialogue).                                                  *)
(*                                                                         *)
(* Addresses do not fit the checker's 32-bit integers (0x80000000 is       *)
(* 2^31), so an address is a record [hi, lo] of two 16-bit-based limbs:    *)
(* its value is hi * 65536 + lo.  Text is a sequence of one-character      *)
(* strings; bytes are integers 0..255.                                     *)
(***************************************************************************)
EXTENDS Integers, Sequences, FiniteSets, TLC

None == "None"

\* the None of an address-valued field (records compare with records only)
NoAddr == [none |-> TRUE]

(***************************************************************************)
(* Address arithmetic on [hi, lo] limbs.                                   *)
(***************************************************************************)
Limb == 256 * 256

Addr(h, l) == [hi |-> h, lo |-> l]

AddrLess(a, b) == a.hi < b.hi \/ (a.hi = b.hi /\ a.lo < b.lo)

AddrLeq(a, b) == a = b \/ AddrLess(a, b)

\* a + n for a small natural n
AddrAdd(a, n) == [hi |-> a.hi + ((a.lo + n) \div Limb), lo |-> (a.lo + n) % Limb]

\* a + b for two limb values
AddrPlus(a, b) == [hi |-> a.hi + b.hi + ((a.lo + b.lo) \div Limb), lo |-> (a.lo + b.lo) % Limb]

\* a - b, for b <= a
AddrMinus(a, b) ==
    IF a.lo >= b.lo THEN [hi |-> a.hi - b.hi, lo |-> a.lo - b.lo]
    ELSE [hi |-> a.hi - b.hi - 1, lo |-> a.lo + Limb - b.lo]

\* 0x80000000, the first console address (memory_ipc.py:66)
GC_MEM_START == Addr(32768, 0)

\* 0x81800000, one past the last console address (memory_ipc.py:66)
GC_MEM_END == Addr(33152, 0)

\* 0x1800000, the least size of a region taken for console RAM (memory_ipc.py:48)
GC_MEM_SIZE == Addr(384, 0)

VARIABLES
    platform,        \* sys.platform: "darwin" or "win32"
    exited,          \* the process was ended by SystemExit (sys.exit)
    connected,       \* MemoryIPC.connected
    gamecube_base,   \* MemoryIPC.gamecube_base (None or a host address)
    is_connected,    \* reader.is_connected
    api,             \* the last MemoryIPC call: its arguments, result and backend access
    cstage,          \* the codec round trip: "idle", "bytes", "text", "encoded", "raised", "again",
                     \* "twice", "raised2"; "unparsed" when parse_ac_text raises
    cbytes,          \* the byte stream b given to parse_ac_text
    ctext,           \* parse_ac_text(b)
    cenc,            \* encode_ac_text of that text: the bytes it returns
    ctext2,          \* parse_ac_text of those bytes
    cenc2,           \* encode_ac_text of that second text
    ccut,            \* the length of the leading part of b that is made of whole units
    once,            \* _read_dialogue_once under way: its arguments, i, full_data, the reads made
    mem,                     \* the PER_READ_SIZE bytes of console memory at TARGET_ADDRESS
    lock,                    \* GLOBAL_GENERATION_LOCK: the loop that holds it, or NoLoop
    now,                     \* time.time(), in seconds
    print_all,               \* the print_all argument of watch_dialogue
    pc,                      \* where each watch loop stands: "tick", "acquire", "generate", "write",
                             \* "header" (after the with block), "exited", "stopped"
    last_text_by_addr,       \* per loop: <<>> for None, <<text>> for a text
    generation_in_progress,  \* per loop: the flag of the target
    suppress_until_by_addr,  \* per loop: the suppression deadline of the target
    initial_text,            \* per loop: the text that started the cycle under way
    llm_text,                \* per loop: what the collaborator returned
    before,                  \* per loop: the target's bytes when its latest cycle took the gate
    foreign,                 \* per loop: the game or another loop has written the target
    outcome                  \* per loop: how its latest cycle ended

ipcVars == <<platform, exited, connected, gamecube_base, is_connected, api>>

codecVars == <<cstage, cbytes, ctext, cenc, ctext2, cenc2, ccut, once>>

loopVars ==
    <<pc, last_text_by_addr, generation_in_progress, suppress_until_by_addr, initial_text,
      llm_text, before, foreign, outcome>>

watchVars == <<mem, lock, now, print_all, loopVars>>

vars == <<ipcVars, codecVars, watchVars>>

\* no one-shot read under way
NoRead == [stage |-> "idle"]

\* the variables of a part of the program that a specification leaves at rest
CodecIdle ==
    /\ cstage = "idle" /\ cbytes = <<>> /\ ctext = <<>> /\ cenc = <<>> /\ ctext2 = <<>>
    /\ cenc2 = <<>> /\ ccut = 0 /\ once = NoRead

NoLoop == "none"

WatchIdle ==
    /\ mem = <<>> /\ lock = NoLoop /\ now = 0 /\ print_all = FALSE
    /\ pc = <<>> /\ last_text_by_addr = <<>> /\ generation_in_progress = <<>>
    /\ suppress_until_by_addr = <<>> /\ initial_text = <<>> /\ llm_text = <<>>
    /\ before = <<>> /\ foreign = <<>> /\ outcome = <<>>

NoCall == [op |-> "none"]

(***************************************************************************)
(* MemoryIPC._gc_to_real_addr: None unless connected with a truthy base    *)
(* and 0x80000000 <= gc_address < 0x81800000.                              *)
(***************************************************************************)
BaseFalsy(b) == b = NoAddr \/ b = Addr(0, 0)

InWindow(gc_address) == AddrLeq(GC_MEM_START, gc_address) /\ AddrLess(gc_address, GC_MEM_END)

\* a translator that clamps an address past the window onto its last byte
gc_to_real_addr_clamping(conn, base, gc_address) ==
    IF ~conn \/ BaseFalsy(base) THEN NoAddr
    ELSE IF InWindow(gc_address) THEN AddrPlus(base, AddrMinus(gc_address, GC_MEM_START))
    ELSE IF AddrLeq(GC_MEM_END, gc_address)
         THEN AddrPlus(base, AddrMinus(AddrMinus(GC_MEM_END, Addr(0, 1)), GC_MEM_START))
    ELSE NoAddr

gc_to_real_addr(conn, base, gc_address) ==
    IF ~conn \/ BaseFalsy(base) THEN NoAddr
    ELSE IF InWindow(gc_address) THEN AddrPlus(base, AddrMinus(gc_address, GC_MEM_START))
    ELSE NoAddr


(***************************************************************************)
(* The per-OS backend.  What the operating system answers is an input:     *)
(* "ok" or "refused".                                                      *)
(*   MacOSMemoryReader.read_memory: a refused vm_read calls sys.exit(1).   *)
(*   WindowsMemoryReader.read_memory: a refused ReadProcessMemory is None. *)
(* A reader that is not connected answers None without touching memory.    *)
(***************************************************************************)
Platforms == {"darwin", "win32"}

OsAnswers == {"ok", "refused"}

\* the outcome of reader.read_memory: "data", "None" or "exit" (SystemExit)
MacOSReadOutcome(isconn, os) ==
    IF ~isconn THEN "None"
    ELSE IF os = "refused" THEN "exit"
    ELSE "data"

WindowsReadOutcome(isconn, os) ==
    IF ~isconn THEN "None"
    ELSE IF os = "refused" THEN "None"
    ELSE "data"

ReaderReadOutcome(plat, isconn, os) ==
    IF plat = "darwin" THEN MacOSReadOutcome(isconn, os) ELSE WindowsReadOutcome(isconn, os)

\* the outcome of reader.write_memory: TRUE or FALSE, on both backends
ReaderWriteOutcome(isconn, os) == isconn /\ os = "ok"

\* the host access a reader call makes: none when the reader is not connected
BackendAccess(isconn, kind, real_addr, size) ==
    IF isconn THEN [kind |-> kind, addr |-> real_addr, size |-> size] ELSE NoAddr

(***************************************************************************)
(* MemoryIPC.read_memory / MemoryIPC.write_memory as one call record:      *)
(* op, the console address and size asked, the result, the host access     *)
(* made by the backend (None when the backend is never called), and what   *)
(* the operating system answered (os).                                     *)
(***************************************************************************)
ReadCall(plat, conn, base, isconn, gc_address, size, os) ==
    LET real_addr == gc_to_real_addr(conn, base, gc_address) IN
    IF real_addr = NoAddr
    THEN [op |-> "read", gc |-> gc_address, size |-> size, base |-> base, result |-> "None",
          called |-> FALSE, access |-> NoAddr, os |-> os]
    ELSE [op |-> "read", gc |-> gc_address, size |-> size, base |-> base,
          result |-> ReaderReadOutcome(plat, isconn, os),
          called |-> TRUE, access |-> BackendAccess(isconn, "read", real_addr, size), os |-> os]

WriteCall(conn, base, isconn, gc_address, size, os) ==
    LET real_addr == gc_to_real_addr(conn, base, gc_address) IN
    IF real_addr = NoAddr
    THEN [op |-> "write", gc |-> gc_address, size |-> size, base |-> base, result |-> "False",
          called |-> FALSE, access |-> NoAddr, os |-> os]
    ELSE [op |-> "write", gc |-> gc_address, size |-> size, base |-> base,
          result |-> IF ReaderWriteOutcome(isconn, os) THEN "True" ELSE "False",
          called |-> TRUE, access |-> BackendAccess(isconn, "write", real_addr, size), os |-> os]

(***************************************************************************)
(* MemoryIPC.connect.  A region is [addr, size, prot, probe]: prot is the  *)
(* protection string the reader gives, as a sequence of characters; probe  *)
(* is what the operating system answers to the 16-byte read at its start:  *)
(* "GAFE" (the marker is there), "other" or "refused".                     *)
(***************************************************************************)
READWRITE == <<"R", "E", "A", "D", "W", "R", "I", "T", "E">>

\* s in t, for two strings
HasSub(t, s) == \E k \in 1..(Len(t) - Len(s) + 1) : SubSeq(t, k, k + Len(s) - 1) = s

\* 'rw' in prot or prot == 'READWRITE' (line 48)
ProtOk(prot) == HasSub(prot, <<"r", "w">>) \/ prot = READWRITE

RegionQualifies(r) == AddrLeq(GC_MEM_SIZE, r.size) /\ ProtOk(r.prot)

\* the scan of the regions from index i on: [status, base]
RECURSIVE ScanRegions(_, _, _)
ScanRegions(plat, regs, i) ==
    IF i > Len(regs) THEN [status |-> "fail", base |-> NoAddr]
    ELSE LET r == regs[i] IN
         IF ~RegionQualifies(r) THEN ScanRegions(plat, regs, i + 1)
         ELSE IF r.probe = "refused"
              THEN IF plat = "darwin" THEN [status |-> "exit", base |-> NoAddr]
                   ELSE ScanRegions(plat, regs, i + 1)
         ELSE IF r.probe = "GAFE" THEN [status |-> "ok", base |-> r.addr]
         ELSE ScanRegions(plat, regs, i + 1)

\* found: reader.connect_to_process found and opened the process
ConnectOutcome(plat, found, regs) ==
    IF ~found THEN [status |-> "fail", base |-> NoAddr]
    ELSE ScanRegions(plat, regs, 1)

(***************************************************************************)
(* Inputs of the translator's specification.                               *)
(***************************************************************************)
\* console addresses around both ends of the window, and far outside it
GcAddresses ==
    { Addr(0, 0), Addr(32767, 65535), Addr(32768, 0), Addr(32768, 12288),
      Addr(33151, 65535), Addr(33152, 0), Addr(33152, 1), Addr(65535, 65535) }

AccessSizes == {0, 1, 2, 16, 512}

\* host regions: 0x6A1800000 (256 MB), 0x7F0000000 (24 MB), 0x10000 (64 KB);
\* the protection "rw" is what the macOS reader gives for the vmmap token
\* rw/rwx
HostRegions ==
    { [addr |-> Addr(434560, 0), size |-> Addr(4096, 0), prot |-> <<"r", "w", "x">>, probe |-> p] :
          p \in {"GAFE", "other", "refused"} }
    \cup { [addr |-> Addr(520192, 0), size |-> Addr(384, 0), prot |-> <<"r", "w", "-">>, probe |-> "GAFE"],
           [addr |-> Addr(520192, 0), size |-> Addr(384, 0), prot |-> <<"r", "-", "-">>, probe |-> "GAFE"],
           [addr |-> Addr(520192, 0), size |-> Addr(384, 0), prot |-> <<"r", "w">>, probe |-> "GAFE"],
           [addr |-> Addr(1, 0), size |-> Addr(1, 0), prot |-> <<"r", "w", "-">>, probe |-> "GAFE"] }

RegionLists == {<<>>} \cup { <<r>> : r \in HostRegions } \cup { <<r, s>> : r, s \in HostRegions }

IpcInit ==
    /\ platform \in Platforms
    /\ exited = FALSE
    /\ connected = FALSE
    /\ gamecube_base = NoAddr
    /\ is_connected = FALSE
    /\ api = NoCall
    /\ CodecIdle
    /\ WatchIdle

\* MemoryIPC.connect()
IpcConnect ==
    /\ ~exited
    /\ \E found \in BOOLEAN, regs \in RegionLists :
          LET out == ConnectOutcome(platform, found, regs) IN
          /\ is_connected' = (is_connected \/ found)
          /\ exited' = (out.status = "exit")
          /\ connected' = (connected \/ out.status = "ok")
          /\ gamecube_base' = IF out.status = "ok" THEN out.base ELSE gamecube_base
          /\ api' = [op |-> "connect", result |-> out.status, found |-> found, regs |-> regs]
    /\ UNCHANGED <<platform, codecVars, watchVars>>

\* MemoryIPC.read_memory(gc_address, size)
IpcRead ==
    /\ ~exited
    /\ \E a \in GcAddresses, n \in AccessSizes, os \in OsAnswers :
          LET c == ReadCall(platform, connected, gamecube_base, is_connected, a, n, os) IN
          /\ api' = c
          /\ exited' = (c.result = "exit")
    /\ UNCHANGED <<platform, connected, gamecube_base, is_connected, codecVars, watchVars>>

\* MemoryIPC.write_memory(gc_address, data), data of n bytes
IpcWrite ==
    /\ ~exited
    /\ \E a \in GcAddresses, n \in AccessSizes, os \in OsAnswers :
          api' = WriteCall(connected, gamecube_base, is_connected, a, n, os)
    /\ UNCHANGED <<platform, exited, connected, gamecube_base, is_connected, codecVars, watchVars>>

\* MemoryIPC.disconnect()
IpcDisconnect ==
    /\ ~exited
    /\ connected' = FALSE
    /\ is_connected' = FALSE
    /\ api' = [op |-> "disconnect", result |-> "None"]
    /\ UNCHANGED <<platform, exited, gamecube_base, codecVars, watchVars>>

IpcNext == IpcConnect \/ IpcRead \/ IpcWrite \/ IpcDisconnect

SpecIPC == IpcInit /\ [][IpcNext]_vars


(***************************************************************************)
(* Claims about the translator.                                            *)
(***************************************************************************)
IsAccessCall == api.op \in {"read", "write"}

FailureOf(op) == IF op = "read" THEN "None" ELSE "False"

\* C1: for every console address outside [0x80000000, 0x81800000) the
\* translation yields no address: read_memory returns None, write_memory
\* returns False, the backend is never called and no host address is formed.
C1_OutsideWindowRejected ==
    (IsAccessCall /\ ~InWindow(api.gc)) =>
        /\ api.result = FailureOf(api.op)
        /\ api.called = FALSE
        /\ api.access = NoAddr

\* a connected translator was asked to write at 0x81800000, the first address past the window
C1_Witness ==
    /\ connected /\ is_connected /\ ~BaseFalsy(gamecube_base)
    /\ api.op = "write" /\ api.gc = GC_MEM_END /\ api.size > 0
    /\ api.result = "False"

\* the range [a, a+n) of a call reaches past the console window
RangeLeavesWindow(a, n) == ~InWindow(a) \/ AddrLess(GC_MEM_END, AddrAdd(a, n))

\* C2: a read or write of n bytes at a is rejected whenever a byte of
\* [a, a+n) lies outside the console window, and no backend access reaches a
\* host address beyond base + window size.
C2_RangeRejected ==
    IsAccessCall =>
        /\ RangeLeavesWindow(api.gc, api.size) =>
               (api.result = FailureOf(api.op) /\ api.called = FALSE)
        /\ api.access # NoAddr =>
               AddrLeq(AddrAdd(api.access.addr, api.access.size), AddrPlus(api.base, GC_MEM_SIZE))

\* C8: on both backends a read that the operating system refuses gives
\* None to the caller and does not end the process.
C8_RefusedReadIsNone ==
    (api.op = "read" /\ api.called /\ api.access # NoAddr /\ api.os = "refused")
        => (api.result = "None" /\ ~exited)

\* a region that has the size, the protection and the marker
HasMarker(r) == RegionQualifies(r) /\ r.probe = "GAFE"

\* the process was opened and the region list holds one such region
SomeRegionHasMarker == api.found /\ \E i \in 1..Len(api.regs) : HasMarker(api.regs[i])

\* C21: after connect, when it returned success the base is the address of
\* the first enumerated region of at least 0x1800000 bytes, readable and
\* writable, whose probe read shows the marker; when no region is such a
\* one it returned failure, no base is set and connected is false.
C21_BaseIsFirstMarked ==
    api.op = "connect" =>
        /\ api.result = "ok" =>
              /\ connected
              /\ \E i \in 1..Len(api.regs) :
                    /\ HasMarker(api.regs[i])
                    /\ gamecube_base = api.regs[i].addr
                    /\ \A j \in 1..(i - 1) : ~HasMarker(api.regs[j])
        /\ ~SomeRegionHasMarker =>
              api.result = "fail" /\ gamecube_base = NoAddr /\ ~connected

\* C28: whenever connect has returned failure, also on an instance that
\* had connected earlier, the instance is not connected: its translation
\* gives None for every address, so reads and writes through it fail until a
\* connect succeeds.
C28_FailedConnectDisconnects ==
    (api.op = "connect" /\ api.result = "fail") =>
        /\ ~connected
        /\ \A a \in GcAddresses : gc_to_real_addr(connected, gamecube_base, a) = NoAddr

(***************************************************************************)
(* The codec's tables (ac_parser_encoder.py:32-140).  A character is a     *)
(* one-character string; a character outside printable ASCII is written    *)
(* "uXXXX" after its code point, and the newline is "\n".  A text is a      *)
(* sequence of characters.                                                 *)
(***************************************************************************)
PREFIX_BYTE == 127

\* CHARACTER_MAP: entry b + 1 is the text of byte b, <<>> when b has no entry
CHARACTER_MAP ==
    <<
      <<"u00A1">>, <<"u00BF">>, <<"u00C4">>, <<"u00C0">>, <<"u00C1">>, <<"u00C2">>, <<"u00C3">>,
      <<"u00C5">>, <<"u00C7">>, <<"u00C8">>, <<"u00C9">>, <<"u00CA">>, <<"u00CB">>, <<"u00CC">>,
      <<"u00CD">>, <<"u00CE">>, <<"u00CF">>, <<"u00D0">>, <<"u00D1">>, <<"u00D2">>, <<"u00D3">>,
      <<"u00D4">>, <<"u00D5">>, <<"u00D6">>, <<"u00D8">>, <<"u00D9">>, <<"u00DA">>, <<"u00DB">>,
      <<"u00DC">>, <<"u00DF">>, <<"u00DE">>, <<"u00E0">>, <<" ">>, <<"!">>, <<"\"">>, <<"u00E1">>,
      <<"u00E2">>, <<"%">>, <<"&">>, <<"'">>, <<"(">>, <<")">>, <<"~">>, <<"u2665">>, <<",">>,
      <<"-">>, <<".">>, <<"u266A">>, <<"0">>, <<"1">>, <<"2">>, <<"3">>, <<"4">>, <<"5">>, <<"6">>,
      <<"7">>, <<"8">>, <<"9">>, <<":">>, <<"u1F322">>, <<"<">>, <<"=">>, <<">">>, <<"?">>,
      <<"@">>, <<"A">>, <<"B">>, <<"C">>, <<"D">>, <<"E">>, <<"F">>, <<"G">>, <<"H">>, <<"I">>,
      <<"J">>, <<"K">>, <<"L">>, <<"M">>, <<"N">>, <<"O">>, <<"P">>, <<"Q">>, <<"R">>, <<"S">>,
      <<"T">>, <<"U">>, <<"V">>, <<"W">>, <<"X">>, <<"Y">>, <<"Z">>, <<"u00E3">>, <<"u1F4A2">>,
      <<"u00E4">>, <<"u00E5">>, <<"_">>, <<"u00E7">>, <<"a">>, <<"b">>, <<"c">>, <<"d">>, <<"e">>,
      <<"f">>, <<"g">>, <<"h">>, <<"i">>, <<"j">>, <<"k">>, <<"l">>, <<"m">>, <<"n">>, <<"o">>,
      <<"p">>, <<"q">>, <<"r">>, <<"s">>, <<"t">>, <<"u">>, <<"v">>, <<"w">>, <<"x">>, <<"y">>,
      <<"z">>, <<"u00E8">>, <<"u00E9">>, <<"u00EA">>, <<"u00EB">>, <<>>, <<>>, <<"u00EC">>,
      <<"u00ED">>, <<"u00EE">>, <<"u00EF">>, <<"u2022">>, <<"u00F0">>, <<"u00F1">>, <<"u00F2">>,
      <<"u00F3">>, <<"u00F4">>, <<"u00F5">>, <<"u00F6">>, <<"u2070">>, <<"u00F9">>, <<"u00FA">>,
      <<"u30FC">>, <<"u00FB">>, <<"u00FC">>, <<"u00FD">>, <<"u00FF">>, <<"u00FE">>, <<"u00DD">>,
      <<"u00A6">>, <<"u00A7">>, <<"a", "u0331">>, <<"o", "u0331">>, <<"u2016">>, <<"u00B5">>,
      <<"u00B3">>, <<"u00B2">>, <<"u00B9">>, <<"u00AF">>, <<"u00AC">>, <<"u00C6">>, <<"u00E6">>,
      <<"u201E">>, <<"u00BB">>, <<"u00AB">>, <<"u2600">>, <<"u2601">>, <<"u2602">>, <<"u1F32C">>,
      <<"u2603">>, <<>>, <<>>, <<"/">>, <<"u221E">>, <<"u25CB">>, <<"u1F5D9">>, <<"u25A1">>,
      <<"u25B3">>, <<"+">>, <<"u26A1">>, <<"u2642">>, <<"u2640">>, <<"u1F340">>, <<"u2605">>,
      <<"u1F480">>, <<"u1F62E">>, <<"u1F604">>, <<"u1F623">>, <<"u1F620">>, <<"u1F603">>,
      <<"u00D7">>, <<"u00F7">>, <<"u1F528">>, <<"u1F380">>, <<"u2709">>, <<"u1F4B0">>,
      <<"u1F43E">>, <<"u1F436">>, <<"u1F431">>, <<"u1F430">>, <<"u1F426">>, <<"u1F42E">>,
      <<"u1F437">>, <<"\n">>, <<"u1F41F">>, <<"u1F41E">>, <<";">>, <<"#">>, <<>>, <<>>, <<>>, <<>>,
      <<>>, <<>>, <<>>, <<>>, <<>>, <<>>, <<>>, <<>>, <<>>, <<>>, <<>>, <<>>, <<>>, <<>>, <<>>,
      <<>>, <<>>, <<>>, <<>>, <<>>, <<>>, <<>>, <<>>, <<>>, <<>>, <<>>, <<>>, <<>>, <<>>, <<>>,
      <<>>, <<>>, <<>>, <<>>, <<>>, <<>>, <<>>, <<>>, <<>>, <<>>, <<>>, <<>> >>

\* CONTROL_CODES in the order of the dict literal: the command byte and its format template
CONTROL_CODES ==
    <<
      [cmd |-> 0, desc |-> <<"<", "E", "n", "d", " ", "C", "o", "n", "v", "e", "r", "s", "a", "t", "i", "o", "n", ">">>],
      [cmd |-> 1, desc |-> <<"<", "C", "o", "n", "t", "i", "n", "u", "e", ">">>],
      [cmd |-> 2, desc |-> <<"<", "C", "l", "e", "a", "r", " ", "T", "e", "x", "t", ">">>],
      [cmd |-> 3, desc |-> <<"<", "P", "a", "u", "s", "e", " ", "[", "{", ":", "0", "2", "X", "}", "]", ">">>],
      [cmd |-> 4, desc |-> <<"<", "P", "r", "e", "s", "s", " ", "A", ">">>],
      [cmd |-> 5, desc |-> <<"<", "C", "o", "l", "o", "r", " ", "L", "i", "n", "e", " ", "[", "{", ":", "0", "6", "X", "}", "]", ">">>],
      [cmd |-> 6, desc |-> <<"<", "I", "n", "s", "t", "a", "n", "t", " ", "S", "k", "i", "p", ">">>],
      [cmd |-> 7, desc |-> <<"<", "U", "n", "s", "k", "i", "p", "p", "a", "b", "l", "e", ">">>],
      [cmd |-> 8, desc |-> <<"<", "P", "l", "a", "y", "e", "r", " ", "E", "m", "o", "t", "i", "o", "n", " ", "[", "{", ":", "0", "2", "X", "}", "]", " ", "[", "{", "}", "]", ">">>],
      [cmd |-> 9, desc |-> <<"<", "N", "P", "C", " ", "E", "x", "p", "r", "e", "s", "s", "i", "o", "n", " ", "[", "C", "a", "t", ":", "{", ":", "0", "2", "X", "}", "]", " ", "[", "{", "}", "]", ">">>],
      [cmd |-> 10, desc |-> <<"<", "S", "e", "t", " ", "D", "e", "m", "o", " ", "O", "r", "d", "e", "r", " ", "[", "{", ":", "0", "2", "X", "}", ",", " ", "{", ":", "0", "2", "X", "}", ",", " ", "{", ":", "0", "2", "X", "}", "]", ">">>],
      [cmd |-> 11, desc |-> <<"<", "S", "e", "t", " ", "D", "e", "m", "o", " ", "O", "r", "d", "e", "r", " ", "[", "{", ":", "0", "2", "X", "}", ",", " ", "{", ":", "0", "2", "X", "}", ",", " ", "{", ":", "0", "2", "X", "}", "]", ">">>],
      [cmd |-> 12, desc |-> <<"<", "S", "e", "t", " ", "D", "e", "m", "o", " ", "O", "r", "d", "e", "r", " ", "[", "{", ":", "0", "2", "X", "}", ",", " ", "{", ":", "0", "2", "X", "}", ",", " ", "{", ":", "0", "2", "X", "}", "]", ">">>],
      [cmd |-> 13, desc |-> <<"<", "O", "p", "e", "n", " ", "C", "h", "o", "i", "c", "e", " ", "M", "e", "n", "u", ">">>],
      [cmd |-> 14, desc |-> <<"<", "S", "e", "t", " ", "J", "u", "m", "p", " ", "[", "{", ":", "0", "4", "X", "}", "]", ">">>],
      [cmd |-> 15, desc |-> <<"<", "C", "h", "o", "i", "c", "e", " ", "1", " ", "J", "u", "m", "p", " ", "[", "{", ":", "0", "4", "X", "}", "]", ">">>],
      [cmd |-> 16, desc |-> <<"<", "C", "h", "o", "i", "c", "e", " ", "2", " ", "J", "u", "m", "p", " ", "[", "{", ":", "0", "4", "X", "}", "]", ">">>],
      [cmd |-> 17, desc |-> <<"<", "C", "h", "o", "i", "c", "e", " ", "3", " ", "J", "u", "m", "p", " ", "[", "{", ":", "0", "4", "X", "}", "]", ">">>],
      [cmd |-> 18, desc |-> <<"<", "C", "h", "o", "i", "c", "e", " ", "4", " ", "J", "u", "m", "p", " ", "[", "{", ":", "0", "4", "X", "}", "]", ">">>],
      [cmd |-> 19, desc |-> <<"<", "R", "a", "n", "d", " ", "J", "u", "m", "p", " ", "2", " ", "[", "{", ":", "0", "4", "X", "}", ",", " ", "{", ":", "0", "4", "X", "}", "]", ">">>],
      [cmd |-> 20, desc |-> <<"<", "R", "a", "n", "d", " ", "J", "u", "m", "p", " ", "3", " ", "[", "{", ":", "0", "4", "X", "}", ",", " ", "{", ":", "0", "4", "X", "}", ",", " ", "{", ":", "0", "4", "X", "}", "]", ">">>],
      [cmd |-> 21, desc |-> <<"<", "R", "a", "n", "d", " ", "J", "u", "m", "p", " ", "4", " ", "[", "{", ":", "0", "4", "X", "}", ",", " ", "{", ":", "0", "4", "X", "}", ",", " ", "{", ":", "0", "4", "X", "}", ",", " ", "{", ":", "0", "4", "X", "}", "]", ">">>],
      [cmd |-> 22, desc |-> <<"<", "S", "e", "t", " ", "2", " ", "C", "h", "o", "i", "c", "e", "s", " ", "[", "{", ":", "0", "4", "X", "}", ",", " ", "{", ":", "0", "4", "X", "}", "]", ">">>],
      [cmd |-> 23, desc |-> <<"<", "S", "e", "t", " ", "3", " ", "C", "h", "o", "i", "c", "e", "s", " ", "[", "{", ":", "0", "4", "X", "}", ",", " ", "{", ":", "0", "4", "X", "}", ",", " ", "{", ":", "0", "4", "X", "}", "]", ">">>],
      [cmd |-> 24, desc |-> <<"<", "S", "e", "t", " ", "4", " ", "C", "h", "o", "i", "c", "e", "s", " ", "[", "{", ":", "0", "4", "X", "}", ",", " ", "{", ":", "0", "4", "X", "}", ",", " ", "{", ":", "0", "4", "X", "}", ",", " ", "{", ":", "0", "4", "X", "}", "]", ">">>],
      [cmd |-> 25, desc |-> <<"<", "F", "o", "r", "c", "e", " ", "D", "i", "a", "l", "o", "g", " ", "S", "w", "i", "t", "c", "h", ">">>],
      [cmd |-> 26, desc |-> <<"<", "P", "l", "a", "y", "e", "r", " ", "N", "a", "m", "e", ">">>],
      [cmd |-> 27, desc |-> <<"<", "N", "P", "C", " ", "N", "a", "m", "e", ">">>],
      [cmd |-> 28, desc |-> <<"<", "C", "a", "t", "c", "h", "p", "h", "r", "a", "s", "e", ">">>],
      [cmd |-> 29, desc |-> <<"<", "Y", "e", "a", "r", ">">>],
      [cmd |-> 30, desc |-> <<"<", "M", "o", "n", "t", "h", ">">>],
      [cmd |-> 31, desc |-> <<"<", "D", "a", "y", " ", "o", "f", " ", "W", "e", "e", "k", ">">>],
      [cmd |-> 32, desc |-> <<"<", "D", "a", "y", ">">>],
      [cmd |-> 33, desc |-> <<"<", "H", "o", "u", "r", ">">>],
      [cmd |-> 34, desc |-> <<"<", "M", "i", "n", "u", "t", "e", ">">>],
      [cmd |-> 35, desc |-> <<"<", "S", "e", "c", "o", "n", "d", ">">>],
      [cmd |-> 36, desc |-> <<"<", "S", "t", "r", "i", "n", "g", " ", "0", ">">>],
      [cmd |-> 37, desc |-> <<"<", "S", "t", "r", "i", "n", "g", " ", "1", ">">>],
      [cmd |-> 38, desc |-> <<"<", "S", "t", "r", "i", "n", "g", " ", "2", ">">>],
      [cmd |-> 39, desc |-> <<"<", "S", "t", "r", "i", "n", "g", " ", "3", ">">>],
      [cmd |-> 40, desc |-> <<"<", "S", "t", "r", "i", "n", "g", " ", "4", ">">>],
      [cmd |-> 47, desc |-> <<"<", "T", "o", "w", "n", " ", "N", "a", "m", "e", ">">>],
      [cmd |-> 80, desc |-> <<"<", "C", "o", "l", "o", "r", " ", "[", "{", ":", "0", "6", "X", "}", "]", " ", "f", "o", "r", " ", "[", "{", ":", "0", "2", "X", "}", "]", " ", "c", "h", "a", "r", "s", ">">>],
      [cmd |-> 83, desc |-> <<"<", "L", "i", "n", "e", " ", "T", "y", "p", "e", " ", "[", "{", ":", "0", "2", "X", "}", "]", ">">>],
      [cmd |-> 84, desc |-> <<"<", "C", "h", "a", "r", " ", "S", "i", "z", "e", " ", "[", "{", ":", "0", "4", "X", "}", "]", ">">>],
      [cmd |-> 86, desc |-> <<"<", "P", "l", "a", "y", " ", "M", "u", "s", "i", "c", " ", "[", "{", "}", "]", " ", "[", "{", "}", "]", ">">>],
      [cmd |-> 87, desc |-> <<"<", "S", "t", "o", "p", " ", "M", "u", "s", "i", "c", " ", "[", "{", "}", "]", " ", "[", "{", "}", "]", ">">>],
      [cmd |-> 89, desc |-> <<"<", "P", "l", "a", "y", " ", "S", "o", "u", "n", "d", " ", "E", "f", "f", "e", "c", "t", " ", "[", "{", "}", "]", ">">>],
      [cmd |-> 90, desc |-> <<"<", "L", "i", "n", "e", " ", "S", "i", "z", "e", " ", "[", "{", ":", "0", "4", "X", "}", "]", ">">>],
      [cmd |-> 118, desc |-> <<"<", "A", "M", "/", "P", "M", ">">>],
      [cmd |-> 76, desc |-> <<"<", "A", "n", "g", "r", "y", " ", "V", "o", "i", "c", "e", ">">>] >>

\* CODE_ARG_COUNT: <<command byte, number of argument bytes>>
CODE_ARG_COUNT ==
    <<
      <<3, 1>>, <<5, 3>>, <<8, 3>>, <<9, 3>>, <<10, 3>>, <<11, 3>>, <<12, 3>>, <<14, 2>>,
      <<15, 2>>, <<16, 2>>, <<17, 2>>, <<18, 2>>, <<19, 4>>, <<20, 6>>, <<21, 8>>, <<22, 4>>,
      <<23, 6>>, <<24, 8>>, <<80, 4>>, <<83, 1>>, <<84, 2>>, <<86, 2>>, <<87, 2>>, <<89, 1>>,
      <<90, 2>> >>

\* EXPRESSION_MAP: <<code, name>>
EXPRESSION_MAP ==
    <<
      <<0, <<"N", "o", "n", "e", "?">>>>,
      <<1, <<"G", "l", "a", "r", "e">>>>,
      <<2, <<"S", "h", "o", "c", "k", "e", "d">>>>,
      <<3, <<"L", "a", "u", "g", "h">>>>,
      <<4, <<"S", "u", "r", "p", "r", "i", "s", "e", "d">>>>,
      <<5, <<"A", "n", "g", "r", "y">>>>,
      <<6, <<"E", "x", "c", "i", "t", "e", "d">>>>,
      <<7, <<"W", "o", "r", "r", "i", "e", "d">>>>,
      <<8, <<"S", "c", "a", "r", "e", "d">>>>,
      <<9, <<"C", "r", "y">>>>,
      <<10, <<"H", "a", "p", "p", "y">>>>,
      <<11, <<"W", "o", "n", "d", "e", "r", "i", "n", "g">>>>,
      <<12, <<"I", "d", "e", "a">>>>,
      <<13, <<"S", "a", "d">>>>,
      <<14, <<"H", "a", "p", "p", "y", " ", "D", "a", "n", "c", "e">>>>,
      <<15, <<"T", "h", "i", "n", "k", "i", "n", "g">>>>,
      <<16, <<"D", "e", "p", "r", "e", "s", "s", "e", "d">>>>,
      <<17, <<"H", "e", "a", "r", "t", "b", "r", "o", "k", "e", "n">>>>,
      <<18, <<"S", "i", "n", "i", "s", "t", "e", "r">>>>,
      <<19, <<"T", "i", "r", "e", "d">>>>,
      <<20, <<"L", "o", "v", "e">>>>,
      <<21, <<"S", "m", "i", "l", "e">>>>,
      <<22, <<"S", "c", "o", "w", "l">>>>,
      <<23, <<"F", "r", "o", "w", "n">>>>,
      <<24, <<"L", "a", "u", "g", "h", "i", "n", "g", " ", "(", "S", "i", "t", "t", "i", "n", "g", ")">>>>,
      <<25, <<"S", "h", "o", "c", "k", "e", "d", " ", "(", "S", "i", "t", "t", "i", "n", "g", ")">>>>,
      <<26, <<"I", "d", "e", "a", " ", "(", "S", "i", "t", "t", "i", "n", "g", ")">>>>,
      <<27, <<"S", "u", "r", "p", "r", "i", "s", "e", "d", " ", "(", "S", "i", "t", "t", "i", "n", "g", ")">>>>,
      <<28, <<"A", "n", "g", "r", "y", " ", "(", "S", "i", "t", "t", "i", "n", "g", ")">>>>,
      <<29, <<"S", "m", "i", "l", "e", " ", "(", "S", "i", "t", "t", "i", "n", "g", ")">>>>,
      <<30, <<"F", "r", "o", "w", "n", " ", "(", "S", "i", "t", "t", "i", "n", "g", ")">>>>,
      <<31, <<"W", "o", "n", "d", "e", "r", "i", "n", "g", " ", "(", "S", "i", "t", "t", "i", "n", "g", ")">>>>,
      <<32, <<"S", "a", "l", "u", "t", "e">>>>,
      <<33, <<"A", "n", "g", "r", "y", " ", "(", "R", "e", "s", "e", "t", "t", "i", ")">>>>,
      <<34, <<"R", "e", "s", "e", "t", " ", "E", "x", "p", "r", "e", "s", "s", "i", "o", "n", "s", " ", "(", "R", "e", "s", "e", "t", "t", "i", ")">>>>,
      <<35, <<"S", "a", "d", " ", "(", "R", "e", "s", "e", "t", "t", "i", ")">>>>,
      <<36, <<"E", "x", "c", "i", "t", "e", "m", "e", "n", "t", " ", "(", "R", "e", "s", "e", "t", "t", "i", ")">>>>,
      <<37, <<"J", "a", "w", " ", "D", "r", "o", "p", " ", "(", "R", "e", "s", "e", "t", "t", "i", ")">>>>,
      <<38, <<"A", "n", "n", "o", "y", "e", "d", " ", "(", "R", "e", "s", "e", "t", "t", "i", ")">>>>,
      <<39, <<"F", "u", "r", "i", "o", "u", "s", " ", "(", "R", "e", "s", "e", "t", "t", "i", ")">>>>,
      <<40, <<"S", "u", "r", "p", "r", "i", "s", "e", "d", " ", "(", "K", ".", "K", ".", ")">>>>,
      <<41, <<"F", "o", "r", "t", "u", "n", "e">>>>,
      <<42, <<"S", "m", "i", "l", "e", " ", "(", "R", "e", "s", "e", "t", "t", "i", ")">>>>,
      <<253, <<"R", "e", "s", "e", "t", " ", "E", "x", "p", "r", "e", "s", "s", "i", "o", "n", "s", " ", "(", "K", ".", "K", ".", ")">>>>,
      <<254, <<"R", "e", "s", "e", "t", " ", "E", "x", "p", "r", "e", "s", "s", "i", "o", "n", "s", " ", "(", "S", "i", "t", "t", "i", "n", "g", ")">>>>,
      <<255, <<"R", "e", "s", "e", "t", " ", "E", "x", "p", "r", "e", "s", "s", "i", "o", "n", "s">>>> >>

\* MUSIC_TRANSITIONS: <<code, name>>
MUSIC_TRANSITIONS ==
    <<
      <<0, <<"N", "o", "n", "e">>>>,
      <<1, <<"U", "n", "d", "e", "t", "e", "r", "m", "i", "n", "e", "d">>>>,
      <<2, <<"F", "a", "d", "e">>>> >>

\* SOUNDEFFECT_LIST: <<code, name>>
SOUNDEFFECT_LIST ==
    <<
      <<0, <<"B", "e", "l", "l", " ", "T", "r", "a", "n", "s", "a", "c", "t", "i", "o", "n">>>>,
      <<1, <<"H", "a", "p", "p", "y">>>>,
      <<2, <<"V", "e", "r", "y", " ", "H", "a", "p", "p", "y">>>>,
      <<3, <<"V", "a", "r", "i", "a", "b", "l", "e", " ", "0">>>>,
      <<4, <<"V", "a", "r", "i", "a", "b", "l", "e", " ", "1">>>>,
      <<5, <<"A", "n", "n", "o", "y", "e", "d">>>>,
      <<6, <<"T", "h", "u", "n", "d", "e", "r">>>>,
      <<7, <<"N", "o", "n", "e">>>> >>

\* MUSIC_LIST: <<code, name>>
MUSIC_LIST ==
    <<
      <<0, <<"S", "i", "l", "e", "n", "c", "e">>>>,
      <<1, <<"A", "r", "r", "i", "v", "i", "n", "g", " ", "i", "n", " ", "T", "o", "w", "n">>>>,
      <<2, <<"H", "o", "u", "s", "e", " ", "S", "e", "l", "e", "c", "t", "i", "o", "n">>>>,
      <<3, <<"H", "o", "u", "s", "e", " ", "S", "e", "l", "e", "c", "t", "e", "d">>>>,
      <<4, <<"H", "o", "u", "s", "e", " ", "S", "e", "l", "e", "c", "t", "e", "d", " ", "(", "2", ")">>>>,
      <<5, <<"R", "e", "s", "e", "t", "t", "i">>>>,
      <<6, <<"C", "u", "r", "r", "e", "n", "t", " ", "H", "o", "u", "r", "l", "y", " ", "M", "u", "s", "i", "c">>>>,
      <<7, <<"R", "e", "s", "e", "t", "t", "i", " ", "(", "2", ")">>>>,
      <<8, <<"D", "o", "n", " ", "R", "e", "s", "e", "t", "t", "i">>>> >>

\* PLAYER_EMOTIONS: <<code, name>>
PLAYER_EMOTIONS ==
    <<
      <<2, <<"S", "u", "r", "p", "r", "i", "s", "e", "d">>>>,
      <<253, <<"P", "u", "r", "p", "l", "e", " ", "M", "i", "s", "t">>>>,
      <<254, <<"S", "c", "a", "r", "e", "d">>>>,
      <<255, <<"R", "e", "s", "e", "t", " ", "E", "m", "o", "t", "i", "o", "n">>>> >>

(***************************************************************************)
(* Helpers: slices, hexadecimal, table lookups.                            *)
(***************************************************************************)
\* Python's s[a:b] on a sequence, with 0-based a <= b
Slice(s, a, b) ==
    LET hi == IF b > Len(s) THEN Len(s) ELSE b IN
    IF a >= hi THEN <<>> ELSE SubSeq(s, a + 1, hi)

HEX_DIGITS == <<"0", "1", "2", "3", "4", "5", "6", "7", "8", "9", "A", "B", "C", "D", "E", "F">>

\* int(c, 16) of one upper-case digit
DigitValue(c) == CHOOSE w \in 0..15 : HEX_DIGITS[w + 1] = c

RECURSIVE HexOf(_)
HexOf(n) == IF n < 16 THEN <<HEX_DIGITS[n + 1]>> ELSE HexOf(n \div 16) \o <<HEX_DIGITS[(n % 16) + 1]>>

RECURSIVE ZeroPad(_, _)
ZeroPad(t, width) == IF Len(t) >= width THEN t ELSE ZeroPad(<<"0">> \o t, width)

\* format(n, "0<width>X")
ToHex(n, width) == ZeroPad(HexOf(n), width)

RECURSIVE DecOf(_)
DecOf(n) == IF n < 10 THEN <<HEX_DIGITS[n + 1]>> ELSE DecOf(n \div 10) \o <<HEX_DIGITS[(n % 10) + 1]>>

\* table.get(k, default) on a table of <<key, value>> pairs
GetOr(table, k, default) ==
    IF \E j \in 1..Len(table) : table[j][1] = k
    THEN table[CHOOSE j \in 1..Len(table) : table[j][1] = k][2]
    ELSE default

\* struct.unpack('>H', two bytes) and int.from_bytes(bytes, 'big')
RECURSIVE FromBytesBig(_)
FromBytesBig(bs) == IF bs = <<>> THEN 0 ELSE FromBytesBig(SubSeq(bs, 1, Len(bs) - 1)) * 256 + bs[Len(bs)]

(***************************************************************************)
(* parse_ac_text (ac_parser_encoder.py:142-222).  A tag argument is        *)
(* [int |-> n] or [str |-> name].                                          *)
(***************************************************************************)
IntArg(n) == [int |-> n]

StrArg(t) == [str |-> t]

IsIntArg(a) == "int" \in DOMAIN a

\* table.get(command, f"<Code 0x{command:02X}>") on the [cmd, desc] records
DescIn(table, command) ==
    IF \E j \in 1..Len(table) : table[j].cmd = command
    THEN table[CHOOSE j \in 1..Len(table) : table[j].cmd = command].desc
    ELSE <<"<", "C", "o", "d", "e", " ", "0", "x">> \o ToHex(command, 2) \o <<">">>

\* CONTROL_CODES.get(command, f"<Code 0x{command:02X}>")
DescOf(command) == DescIn(CONTROL_CODES, command)

\* a table that gives Rand Jump 2 (0x13) five argument bytes
NumArgs_odd(command) == GetOr(CODE_ARG_COUNT, command, 0) + (IF command = 19 THEN 1 ELSE 0)

\* CODE_ARG_COUNT.get(command, 0)
NumArgs(command) == GetOr(CODE_ARG_COUNT, command, 0)

\* table.get(code, prefix + hex(code, width))
NameOf(table, code, prefix, width) == GetOr(table, code, prefix \o ToHex(code, width))

RECURSIVE Unpack16s(_)
Unpack16s(bs) ==
    IF Len(bs) < 2 THEN <<>>
    ELSE <<IntArg(FromBytesBig(SubSeq(bs, 1, 2)))>> \o Unpack16s(SubSeq(bs, 3, Len(bs)))

\* args_tuple of a command whose num_args argument bytes are all there (lines 172-206)
ArgsTuple(command, num_args, args_bytes) ==
    IF command = 9
    THEN <<IntArg(args_bytes[1]),
           StrArg(NameOf(EXPRESSION_MAP, FromBytesBig(Slice(args_bytes, 1, 3)), <<"U", "n", "k", "n", "o", "w", "n", "_">>, 4))>>
    ELSE IF command = 8
    THEN <<IntArg(args_bytes[1]),
           StrArg(NameOf(PLAYER_EMOTIONS, FromBytesBig(Slice(args_bytes, 1, 3)), <<"U", "n", "k", "n", "o", "w", "n", "_", "E", "m", "o", "t", "i", "o", "n", "_">>, 4))>>
    ELSE IF command \in {86, 87}
    THEN <<StrArg(NameOf(MUSIC_LIST, args_bytes[1], <<"U", "n", "k", "n", "o", "w", "n", "_", "M", "u", "s", "i", "c", "_">>, 2)),
           StrArg(NameOf(MUSIC_TRANSITIONS, args_bytes[2], <<"U", "n", "k", "n", "o", "w", "n", "_", "T", "r", "a", "n", "s", "i", "t", "i", "o", "n", "_">>, 2))>>
    ELSE IF num_args = 1
    THEN IF command = 89
         THEN <<StrArg(NameOf(SOUNDEFFECT_LIST, args_bytes[1], <<"U", "n", "k", "n", "o", "w", "n", "_", "S", "o", "u", "n", "d", "_">>, 2))>>
         ELSE <<IntArg(args_bytes[1])>>
    ELSE IF num_args = 2 THEN <<IntArg(FromBytesBig(args_bytes))>>
    ELSE IF num_args = 3 /\ command = 5 THEN <<IntArg(FromBytesBig(args_bytes))>>
    ELSE IF num_args = 3 THEN <<IntArg(args_bytes[1]), IntArg(args_bytes[2]), IntArg(args_bytes[3])>>
    ELSE IF num_args = 4 /\ command = 80
    THEN <<IntArg(FromBytesBig(Slice(args_bytes, 0, 3))), IntArg(args_bytes[4])>>
    ELSE Unpack16s(args_bytes)

\* the least and the greatest element of a non-empty set of integers
MinOf(S) == CHOOSE k \in S : \A m \in S : k <= m

MaxOf(S) == CHOOSE k \in S : \A m \in S : m <= k

\* the first index of t at or after i whose element is in the set cs, 0
\* when there is none
IndexOfAny(t, cs, i) ==
    LET S == {k \in i..Len(t) : t[k] \in cs} IN IF S = {} THEN 0 ELSE MinOf(S)

\* the index of the first c in t at or after index i, 0 when there is none
IndexFrom(t, c, i) == IndexOfAny(t, {c}, i)

\* the concatenation of the sequences seqs[lo..hi], and of all of them
RECURSIVE Flatten(_, _, _)
Flatten(seqs, lo, hi) ==
    IF lo > hi THEN <<>>
    ELSE IF lo = hi THEN seqs[lo]
    ELSE Flatten(seqs, lo, (lo + hi) \div 2) \o Flatten(seqs, ((lo + hi) \div 2) + 1, hi)

Concat(seqs) == Flatten(seqs, 1, Len(seqs))

\* The matches of a regular expression in t from index i on, leftmost first
\* and not overlapping, as re.sub, re.split and re.findall take them:
\* End(t, k) is the index of the last character of the match that starts
\* at index k, 0 when none starts there.
RECURSIVE Scan(_, _, _)
Scan(End(_, _), t, i) ==
    LET S == {k \in i..Len(t) : End(t, k) > 0} IN
    IF S = {} THEN <<>>
    ELSE <<[from |-> MinOf(S), to |-> End(t, MinOf(S))]>> \o Scan(End, t, End(t, MinOf(S)) + 1)

\* t cut at the matches: the stretches between them at the odd places,
\* the matches at the even ones
Pieces(End(_, _), t) ==
    LET ms == Scan(End, t, 1) IN
    [j \in 1..(2 * Len(ms) + 1) |->
        IF j % 2 = 0 THEN SubSeq(t, ms[j \div 2].from, ms[j \div 2].to)
        ELSE SubSeq(t, IF j = 1 THEN 1 ELSE ms[j \div 2].to + 1,
                       IF j > 2 * Len(ms) THEN Len(t) ELSE ms[(j \div 2) + 1].from - 1)]

\* re.sub: every match replaced by Repl of it
ReSub(End(_, _), Repl(_), t) ==
    LET ps == Pieces(End, t) IN
    Concat([j \in 1..Len(ps) |-> IF j % 2 = 0 THEN Repl(ps[j]) ELSE ps[j]])

\* one replacement field: "" is str(arg); ":0<w>X" is upper-case hex, zero-padded
\* (of an integer: every such field of the table is given one)
FormatField(field, arg) ==
    IF field = <<>>
    THEN IF IsIntArg(arg) THEN DecOf(arg.int) ELSE arg.str
    ELSE IF IsIntArg(arg)
         THEN ToHex(arg.int, DigitValue(field[3]))
         ELSE <<>>

\* desc.format(*args) from index i of desc, the k-th argument next:
\* [ok, text]; ok is FALSE on IndexError (fewer arguments than fields)
RECURSIVE FormatFrom(_, _, _, _)
FormatFrom(desc, i, args, k) ==
    LET open == IndexFrom(desc, "{", i) IN
    IF open = 0 THEN [ok |-> TRUE, text |-> SubSeq(desc, i, Len(desc))]
    ELSE IF k > Len(args) THEN [ok |-> FALSE, text |-> <<>>]
    ELSE LET close == IndexFrom(desc, "}", open)
             rest == FormatFrom(desc, close + 1, args, k + 1)
         IN [ok |-> rest.ok,
             text |-> SubSeq(desc, i, open - 1)
                          \o FormatField(SubSeq(desc, open + 1, close - 1), args[k])
                          \o rest.text]

\* try: desc.format(*args_tuple) except (TypeError, IndexError): desc
FormatOr(r, desc) == IF r.ok THEN r.text ELSE desc

FormatTag(desc, args) == FormatOr(FormatFrom(desc, 1, args, 1), desc)

\* map.get(byte, f"[?{byte:02X}]") on the 256 texts of the character map
CharIn(map, byte) ==
    IF map[byte + 1] # <<>> THEN map[byte + 1]
    ELSE <<"[", "?">> \o ToHex(byte, 2) \o <<"]">>

\* CHARACTER_MAP.get(byte, f"[?{byte:02X}]")
CharOf(byte) == CharIn(CHARACTER_MAP, byte)

MalformedTag(command) == <<"<", "M", "a", "l", "f", "o", "r", "m", "e", "d", " ", "C", "o", "d", "e", " ", "0", "x">> \o ToHex(command, 2) \o <<">">>

\* A turn of the loop of parse_ac_text is [text, next]: the text it appends
\* and the next 0-based read position, -1 when the loop ends there.
\* A run of plain bytes up to the next 0 or prefix byte is taken at once.
PlainRun(data, i, last) ==
    [text |-> Concat([k \in 1..(last - i) |-> CharOf(data[i + k])]), next |-> last]

PlainStep(data, i, stop) == PlainRun(data, i, IF stop = 0 THEN Len(data) ELSE stop - 1)

\* a loop that steps over a truncated code's argument bytes but one
CommandStepWith_short(i, command, num_args, args_bytes, desc) ==
    IF command = 0 THEN [text |-> desc, next |-> -1]
    ELSE IF num_args = 0 THEN [text |-> desc, next |-> i + 2]
    ELSE IF Len(args_bytes) < num_args
    THEN [text |-> MalformedTag(command), next |-> i + 1 + Len(args_bytes)]
    ELSE [text |-> FormatTag(desc, ArgsTuple(command, num_args, args_bytes)),
          next |-> i + 2 + num_args]

\* the prefix byte at position i, then command (lines 150-216)
CommandStepWith(i, command, num_args, args_bytes, desc) ==
    IF command = 0 THEN [text |-> desc, next |-> -1]
    ELSE IF num_args = 0 THEN [text |-> desc, next |-> i + 2]
    ELSE IF Len(args_bytes) < num_args
    THEN [text |-> MalformedTag(command), next |-> i + 2 + Len(args_bytes)]
    ELSE [text |-> FormatTag(desc, ArgsTuple(command, num_args, args_bytes)),
          next |-> i + 2 + num_args]

CommandStep(data, i, command, num_args) ==
    CommandStepWith(i, command, num_args, Slice(data, i + 2, i + 2 + num_args), DescOf(command))

\* a loop that steps over a zero byte and goes on
ParseStep_past_nul(data, i) ==
    IF data[i + 1] = 0 THEN [text |-> <<>>, next |-> i + 1]
    ELSE IF data[i + 1] # PREFIX_BYTE
    THEN PlainStep(data, i, IndexOfAny(data, {0, PREFIX_BYTE}, i + 1))
    ELSE IF i + 1 >= Len(data) THEN [text |-> <<>>, next |-> -1]
    ELSE CommandStep(data, i, data[i + 2], NumArgs(data[i + 2]))

ParseStep(data, i) ==
    IF data[i + 1] = 0 THEN [text |-> <<>>, next |-> -1]
    ELSE IF data[i + 1] # PREFIX_BYTE
    THEN PlainStep(data, i, IndexOfAny(data, {0, PREFIX_BYTE}, i + 1))
    ELSE IF i + 1 >= Len(data) THEN [text |-> <<>>, next |-> -1]
    ELSE CommandStep(data, i, data[i + 2], NumArgs(data[i + 2]))

\* the turns of the loop from read position i on: [at, text]
RECURSIVE ParseSteps(_, _)
RECURSIVE StepsAfter(_, _, _)
ParseSteps(data, i) ==
    IF i < 0 \/ i >= Len(data) THEN <<>> ELSE StepsAfter(data, i, ParseStep(data, i))

StepsAfter(data, i, step) == <<[at |-> i, text |-> step.text]>> \o ParseSteps(data, step.next)

\* "".join(text_buffer)
TextOf(steps) == Concat([k \in 1..Len(steps) |-> steps[k].text])

parse_ac_text(data) == TextOf(ParseSteps(data, 0))

\* The exceptions parse_ac_text does not catch.  desc.format(*args_tuple)
\* walks the fields in order: a field past the last argument is the
\* IndexError of line 209 (caught), a hexadecimal field given a name is a
\* ValueError (not caught).
RECURSIVE FormatRaises(_, _, _, _)
FormatRaises(desc, i, args, k) ==
    LET open == IndexFrom(desc, "{", i) IN
    IF open = 0 \/ k > Len(args) THEN FALSE
    ELSE LET close == IndexFrom(desc, "}", open) IN
         IF close > open + 1 /\ ~IsIntArg(args[k]) THEN TRUE
         ELSE FormatRaises(desc, close + 1, args, k + 1)

\* struct.unpack('>H', args_bytes[j:j+2]) of line 206 on a slice of one
\* byte: the last pair of an odd num_args (struct.error)
UnpackRaises(command, num_args) ==
    /\ command \notin {8, 9, 86, 87}
    /\ num_args > 3 /\ ~(num_args = 4 /\ command = 80)
    /\ num_args % 2 = 1

\* the command at position i + 1 with all its argument bytes raises
CommandRaises(command, num_args, args_bytes, desc) ==
    /\ command # 0 /\ num_args > 0 /\ Len(args_bytes) = num_args
    /\ \/ UnpackRaises(command, num_args)
       \/ FormatRaises(desc, 1, ArgsTuple(command, num_args, args_bytes), 1)

StepRaisesWith(data, i, command, num_args) ==
    CommandRaises(command, num_args, Slice(data, i + 2, i + 2 + num_args), DescOf(command))

\* the turn of the loop at read position i raises
StepRaises(data, i) ==
    /\ data[i + 1] = PREFIX_BYTE /\ i + 1 < Len(data)
    /\ StepRaisesWith(data, i, data[i + 2], NumArgs(data[i + 2]))

RaisesIn(data, steps) == \E k \in 1..Len(steps) : StepRaises(data, steps[k].at)

\* parse_ac_text(data) raises instead of returning
ParseRaises(data) == RaisesIn(data, ParseSteps(data, 0))

(***************************************************************************)
(* Character classes and the small regular-expression matcher used by      *)
(* _normalize_control_tags (ac_parser_encoder.py:225-298).                 *)
(***************************************************************************)
LOWER_HEX == <<"a", "b", "c", "d", "e", "f">>

IsHexChar(c) == (\E k \in 1..16 : HEX_DIGITS[k] = c) \/ (\E k \in 1..6 : LOWER_HEX[k] = c)

\* str.upper() of a hexadecimal digit
UpperHex(c) == IF \E k \in 1..6 : LOWER_HEX[k] = c THEN HEX_DIGITS[10 + (CHOOSE k \in 1..6 : LOWER_HEX[k] = c)] ELSE c

UpperText(t) == [k \in 1..Len(t) |-> UpperHex(t[k])]

\* int(t, 16)
RECURSIVE HexValue(_)
HexValue(t) ==
    IF t = <<>> THEN 0
    ELSE HexValue(SubSeq(t, 1, Len(t) - 1)) * 16 + DigitValue(UpperHex(t[Len(t)]))

\* the characters \s matches in a str pattern: the white space of Unicode
IsSpace(c) ==
    c \in {" ", "\n", "u0009", "u000B", "u000C", "u000D", "u001C", "u001D", "u001E", "u001F",
           "u0085", "u00A0", "u1680", "u2000", "u2001", "u2002", "u2003", "u2004", "u2005",
           "u2006", "u2007", "u2008", "u2009", "u200A", "u2028", "u2029", "u202F", "u205F",
           "u3000"}

\* does literal text s stand in t at index j
LitAt(t, j, s) == j + Len(s) - 1 <= Len(t) /\ SubSeq(t, j, j + Len(s) - 1) = s

\* the length of the run of characters satisfying a class from index j of t
HexRun(t, j) ==
    LET S == {k \in j..Len(t) : ~IsHexChar(t[k])} IN (IF S = {} THEN Len(t) + 1 ELSE MinOf(S)) - j

SpaceRun(t, j) ==
    LET S == {k \in j..Len(t) : ~IsSpace(t[k])} IN (IF S = {} THEN Len(t) + 1 ELSE MinOf(S)) - j

Min(a, b) == IF a < b THEN a ELSE b

\* Pattern elements: a literal, \s+, an optional literal, a captured run of
\* lo..hi hexadecimal digits.
Lit(s) == [t |-> "lit", s |-> s, lo |-> 0, hi |-> 0]

Ws == [t |-> "ws", s |-> <<>>, lo |-> 0, hi |-> 0]

Opt(s) == [t |-> "opt", s |-> s, lo |-> 0, hi |-> 0]

Hex(lo, hi) == [t |-> "hex", s |-> <<>>, lo |-> lo, hi |-> hi]

\* The matches of pattern elements i.. against t from index j to the end of
\* t, as the list of their captured groups in the order a backtracking
\* matcher tries them (greedy first); <<>> when there is none.
RECURSIVE MatchFrom(_, _, _, _, _)
RECURSIVE TryLengths(_, _, _, _, _, _, _)
MatchFrom(pat, i, t, j, caps) ==
    IF i > Len(pat) THEN (IF j = Len(t) + 1 THEN <<caps>> ELSE <<>>)
    ELSE LET e == pat[i] IN
    IF e.t = "lit"
    THEN IF LitAt(t, j, e.s) THEN MatchFrom(pat, i + 1, t, j + Len(e.s), caps) ELSE <<>>
    ELSE IF e.t = "opt"
    THEN (IF LitAt(t, j, e.s) THEN MatchFrom(pat, i + 1, t, j + Len(e.s), caps) ELSE <<>>)
         \o MatchFrom(pat, i + 1, t, j, caps)
    ELSE IF e.t = "ws"
    THEN TryLengths(pat, i, t, j, caps, SpaceRun(t, j), 1)
    ELSE TryLengths(pat, i, t, j, caps, Min(HexRun(t, j), e.hi), e.lo)

\* element i taking n, n-1, ..., lo characters
TryLengths(pat, i, t, j, caps, n, lo) ==
    IF n < lo THEN <<>>
    ELSE MatchFrom(pat, i + 1, t, j + n,
                   IF pat[i].t = "hex" THEN Append(caps, SubSeq(t, j, j + n - 1)) ELSE caps)
         \o TryLengths(pat, i, t, j, caps, n - 1, lo)

\* m.group(k).upper().zfill(width)
Group(caps, k, width) == ZeroPad(UpperText(caps[k]), width)

\* One re.sub of _normalize_control_tags: the pattern, and the replacement
\* as pieces: a literal text, or <<group, zfill width>>.
Rule(pat, out) == [pat |-> pat, out |-> out]

G(k, width) == [g |-> k, w |-> width]

P(s) == [g |-> 0, w |-> 0, s |-> s]

RECURSIVE Replacement(_, _, _)
Replacement(out, k, caps) ==
    IF k > Len(out) THEN <<>>
    ELSE (IF out[k].g = 0 THEN out[k].s ELSE Group(caps, out[k].g, out[k].w))
         \o Replacement(out, k + 1, caps)

NORMALIZE_RULES ==
    << Rule(<<Lit(<<"<", "N", "P", "C">>), Ws, Lit(<<"E", "x", "p", "r", "e", "s", "s", "i", "o", "n">>), Ws, Opt(<<"[">>), Opt(<<"C", "a", "t", ":">>), Hex(1, 2),
              Opt(<<"]">>), Ws, Opt(<<"[">>), Hex(1, 4), Opt(<<"]">>), Lit(<<">">>)>>,
            <<P(<<"<", "N", "P", "C", " ", "E", "x", "p", "r", "e", "s", "s", "i", "o", "n", " ", "[">>), G(1, 2), P(<<"]", " ", "[">>), G(2, 4), P(<<"]", ">">>)>>),
       Rule(<<Lit(<<"<", "P", "l", "a", "y", "e", "r">>), Ws, Lit(<<"E", "m", "o", "t", "i", "o", "n">>), Ws, Opt(<<"[">>), Hex(1, 2),
              Opt(<<"]">>), Ws, Opt(<<"[">>), Hex(1, 4), Opt(<<"]">>), Lit(<<">">>)>>,
            <<P(<<"<", "P", "l", "a", "y", "e", "r", " ", "E", "m", "o", "t", "i", "o", "n", " ", "[">>), G(1, 2), P(<<"]", " ", "[">>), G(2, 4), P(<<"]", ">">>)>>),
       Rule(<<Lit(<<"<", "P", "a", "u", "s", "e">>), Ws, Hex(1, 2), Lit(<<">">>)>>,
            <<P(<<"<", "P", "a", "u", "s", "e", " ", "[">>), G(1, 2), P(<<"]", ">">>)>>),
       Rule(<<Lit(<<"<", "L", "i", "n", "e", " ", "T", "y", "p", "e">>), Ws, Hex(1, 2), Lit(<<">">>)>>,
            <<P(<<"<", "L", "i", "n", "e", " ", "T", "y", "p", "e", " ", "[">>), G(1, 2), P(<<"]", ">">>)>>),
       Rule(<<Lit(<<"<", "P", "l", "a", "y", " ", "S", "o", "u", "n", "d", " ", "E", "f", "f", "e", "c", "t">>), Ws, Hex(1, 2), Lit(<<">">>)>>,
            <<P(<<"<", "P", "l", "a", "y", " ", "S", "o", "u", "n", "d", " ", "E", "f", "f", "e", "c", "t", " ", "[">>), G(1, 2), P(<<"]", ">">>)>>),
       Rule(<<Lit(<<"<", "C", "h", "a", "r", " ", "S", "i", "z", "e">>), Ws, Hex(1, 4), Lit(<<">">>)>>,
            <<P(<<"<", "C", "h", "a", "r", " ", "S", "i", "z", "e", " ", "[">>), G(1, 4), P(<<"]", ">">>)>>),
       Rule(<<Lit(<<"<", "L", "i", "n", "e", " ", "S", "i", "z", "e">>), Ws, Hex(1, 4), Lit(<<">">>)>>,
            <<P(<<"<", "L", "i", "n", "e", " ", "S", "i", "z", "e", " ", "[">>), G(1, 4), P(<<"]", ">">>)>>),
       Rule(<<Lit(<<"<", "C", "o", "l", "o", "r">>), Ws, Opt(<<"[">>), Hex(6, 6), Opt(<<"]">>), Ws, Lit(<<"f", "o", "r">>), Ws,
              Opt(<<"[">>), Hex(1, 2), Opt(<<"]">>), Lit(<<">">>)>>,
            <<P(<<"<", "C", "o", "l", "o", "r", " ", "[">>), G(1, 0), P(<<"]", " ", "f", "o", "r", " ", "[">>), G(2, 2), P(<<"]", " ", "c", "h", "a", "r", "s", ">">>)>>),
       Rule(<<Lit(<<"<", "C", "o", "l", "o", "r">>), Ws, Opt(<<"[">>), Hex(6, 6), Opt(<<"]">>), Ws, Lit(<<"f", "o", "r">>), Ws,
              Opt(<<"[">>), Hex(1, 2), Opt(<<"]">>), Ws, Lit(<<"c", "h", "a", "r">>), Opt(<<"s">>), Lit(<<">">>)>>,
            <<P(<<"<", "C", "o", "l", "o", "r", " ", "[">>), G(1, 0), P(<<"]", " ", "f", "o", "r", " ", "[">>), G(2, 2), P(<<"]", " ", "c", "h", "a", "r", "s", ">">>)>>),
       Rule(<<Lit(<<"<", "C", "o", "l", "o", "r">>), Ws, Lit(<<"L", "i", "n", "e">>), Ws, Opt(<<"[">>), Hex(6, 6), Opt(<<"]">>), Lit(<<">">>)>>,
            <<P(<<"<", "C", "o", "l", "o", "r", " ", "L", "i", "n", "e", " ", "[">>), G(1, 0), P(<<"]", ">">>)>>),
       Rule(<<Lit(<<"<", "C", "o", "l", "o", "r">>), Ws, Hex(6, 6), Lit(<<">">>)>>,
            <<P(<<"<", "C", "o", "l", "o", "r", " ", "L", "i", "n", "e", " ", "[">>), G(1, 0), P(<<"]", ">">>)>>),
       Rule(<<Lit(<<"<", "C", "o", "l", "o", "r">>), Ws, Lit(<<"[">>), Hex(6, 6), Lit(<<"]">>), Lit(<<">">>)>>,
            <<P(<<"<", "C", "o", "l", "o", "r", " ", "L", "i", "n", "e", " ", "[">>), G(1, 0), P(<<"]", ">">>)>>) >>

\* one re.sub on a "<...>" stretch: ms are the matches of its pattern
RuleResult(rule, tag, ms) == IF ms = <<>> THEN tag ELSE Replacement(rule.out, 1, ms[1])

ApplyRule(rule, tag) == RuleResult(rule, tag, MatchFrom(rule.pat, 1, tag, 1, <<>>))

\* the rules from the k-th on applied in turn to one "<...>" stretch; a
\* rule that does not match leaves it as it is
RECURSIVE ApplyRules(_, _, _)
ApplyRules(rules, tag, k) ==
    IF k > Len(rules) THEN tag
    ELSE LET out == ApplyRule(rules[k], tag) IN
         IF out = tag THEN ApplyRules(rules, tag, k + 1) ELSE ApplyRules(rules, out, k + 1)

\* r"</[^>]+>" at index k
ClosingTagEnd(t, k) ==
    IF t[k] = "<" /\ k + 1 <= Len(t) /\ t[k + 1] = "/" /\ IndexFrom(t, ">", k + 2) > k + 2
    THEN IndexFrom(t, ">", k + 2) ELSE 0

NoText(m) == <<>>

\* re.sub(r"</[^>]+>", "", text)
StripClosingTags(t) == ReSub(ClosingTagEnd, NoText, t)

\* the index of the first "<" or ">" of t at or after i, 0 when there is none
NextAngle(t, i) == IndexOfAny(t, {"<", ">"}, i)

\* a stretch "<", no angle bracket, ">" at index k
StretchEnd(t, k) ==
    IF t[k] = "<" /\ NextAngle(t, k + 1) > 0 /\ t[NextAngle(t, k + 1)] = ">"
    THEN NextAngle(t, k + 1) ELSE 0

ApplyAllRules(tag) == ApplyRules(NORMALIZE_RULES, tag, 1)

\* every rule matches from a "<" to the next ">" with neither in between, so
\* the substitutions act on these stretches one by one
NormalizeStretches(t) == ReSub(StretchEnd, ApplyAllRules, t)

normalize_control_tags(text) == NormalizeStretches(StripClosingTags(text))

\* _normalize_visible_text (ac_parser_encoder.py:301-323)
VisibleChar(c) ==
    IF c \in {"u2019", "u2018"} THEN <<"'">>
    ELSE IF c \in {"u201C", "u201D"} THEN <<"\"">>
    ELSE IF c \in {"u2014", "u2013"} THEN <<"-">>
    ELSE IF c = "u2026" THEN <<".", ".", ".">>
    ELSE IF c = "u00A0" THEN <<" ">>
    ELSE <<c>>

normalize_visible_text(text) == Concat([k \in 1..Len(text) |-> VisibleChar(text[k])])

(***************************************************************************)
(* encode_ac_text (ac_parser_encoder.py:359-432).                          *)
(***************************************************************************)
\* re.sub(r'\[.*?\]', '[{}]', t): "." does not match a newline
NextCloseOrNewline(t, i) == IndexOfAny(t, {"]", "\n"}, i)

BracketEnd(t, k) ==
    IF t[k] = "[" /\ NextCloseOrNewline(t, k + 1) > 0 /\ t[NextCloseOrNewline(t, k + 1)] = "]"
    THEN NextCloseOrNewline(t, k + 1) ELSE 0

Braces(m) == <<"[", "{", "}", "]">>

Templated(t) == ReSub(BracketEnd, Braces, t)

\* REVERSE_CONTROL_CODES (lines 73-79): the templated description of each
\* command, a later entry of the dict replacing an earlier one, then the
\* two synonyms
REVERSE_SYNONYMS ==
    << <<<<"<", "N", "P", "C", " ", "E", "x", "p", "r", "e", "s", "s", "i", "o", "n", " ", "[", "{", "}", "]", " ", "[", "{", "}", "]", ">">>, 9>>, <<<<"<", "P", "l", "a", "y", "e", "r", " ", "E", "m", "o", "t", "i", "o", "n", " ", "[", "{", "}", "]", " ", "[", "{", "}", "]", ">">>, 8>> >>

\* the keys the table gives, in its order
TemplatedDescs(table) == [j \in 1..Len(table) |-> Templated(table[j].desc)]

\* the command of the last entry whose key is base_tag, -1 (None) without one
LastWithKey(table, keys, base_tag) ==
    IF \E j \in 1..Len(keys) : keys[j] = base_tag
    THEN table[MaxOf({j \in 1..Len(keys) : keys[j] = base_tag})].cmd
    ELSE -1

ReverseIn(table, base_tag) ==
    GetOr(REVERSE_SYNONYMS, base_tag, LastWithKey(table, TemplatedDescs(table), base_tag))

\* REVERSE_CONTROL_CODES.get(base_tag), -1 for None
REVERSE_CONTROL_CODES(base_tag) == ReverseIn(CONTROL_CODES, base_tag)

\* the byte of the last entry of the character map whose text is c, -1 without one
ByteIn(map, c) ==
    IF \E b \in 1..Len(map) : map[b] = <<c>>
    THEN MaxOf({b \in 1..Len(map) : map[b] = <<c>>}) - 1
    ELSE -1

\* REVERSE_CHARACTER_MAP.get(char) (line 53), -1 for None
REVERSE_CHARACTER_MAP(char) == ByteIn(CHARACTER_MAP, char)

\* the arguments of a tag: re.findall(r'\[[^\]]*?([0-9a-fA-F]{1,6})\]') as integers.
\* From a "[" the match ends at the next "]" and captures the hexadecimal
\* digits that stand right before it, six at most.
HexSuffixLen(t) ==
    LET S == {k \in 1..Len(t) : ~IsHexChar(t[k])} IN Len(t) - (IF S = {} THEN 0 ELSE MaxOf(S))

RECURSIVE TagArgsFrom(_, _)
TagArgsFrom(t, i) ==
    LET p == IndexFrom(t, "[", i)
        q == IndexFrom(t, "]", p + 1)
        content == SubSeq(t, p + 1, q - 1)
        h == Min(HexSuffixLen(content), 6)
    IN IF p = 0 \/ q = 0 THEN <<>>
       ELSE IF h = 0 THEN TagArgsFrom(t, q + 1)
       ELSE <<HexValue(SubSeq(content, Len(content) - h + 1, Len(content)))>> \o TagArgsFrom(t, q + 1)

TagArgs(token) == TagArgsFrom(token, 1)

\* struct.pack('>B', n), struct.pack('>H', n), n.to_bytes(3, 'big'):
\* [ok, bytes], ok FALSE when the value does not fit (struct.error)
PackB(n) == IF n <= 255 THEN [ok |-> TRUE, bytes |-> <<n>>] ELSE [ok |-> FALSE, bytes |-> <<>>]

PackH(n) ==
    IF n <= 65535 THEN [ok |-> TRUE, bytes |-> <<n \div 256, n % 256>>] ELSE [ok |-> FALSE, bytes |-> <<>>]

Pack3(n) == [ok |-> TRUE, bytes |-> <<n \div 65536, (n \div 256) % 256, n % 256>>]

\* args[k]: IndexError when the tag has fewer arguments
ArgAt(args, k, pack(_)) == IF k > Len(args) THEN [ok |-> FALSE, bytes |-> <<>>] ELSE pack(args[k])

Both(a, b) == [ok |-> a.ok /\ b.ok, bytes |-> a.bytes \o b.bytes]

RECURSIVE PackAllH(_)
PackAllH(args) ==
    IF args = <<>> THEN [ok |-> TRUE, bytes |-> <<>>]
    ELSE Both(PackH(args[1]), PackAllH(SubSeq(args, 2, Len(args))))

\* arg_bytes of a resolved command (lines 382-397)
PackFor(num_args_expected, command_byte, args) ==
    IF num_args_expected = 0 THEN [ok |-> TRUE, bytes |-> <<>>]
    ELSE IF num_args_expected = 1 THEN ArgAt(args, 1, PackB)
    ELSE IF num_args_expected = 2 THEN ArgAt(args, 1, PackH)
    ELSE IF num_args_expected = 3 /\ command_byte = 5 THEN ArgAt(args, 1, Pack3)
    ELSE IF num_args_expected = 3 /\ command_byte \in {8, 9}
         THEN Both(ArgAt(args, 1, PackB), ArgAt(args, 2, PackH))
    ELSE IF num_args_expected = 4 /\ command_byte = 80
         THEN Both(ArgAt(args, 1, Pack3), ArgAt(args, 2, PackB))
    ELSE PackAllH(args)

PackArgs(command_byte, args) == PackFor(NumArgs(command_byte), command_byte, args)

PackedTag(command_byte, packed) ==
    [ok |-> packed.ok, bytes |-> <<PREFIX_BYTE, command_byte>> \o packed.bytes]

\* the bytes of one tag token (lines 370-399); an unknown tag gives none
EncodeTagAs(token, command_byte) ==
    IF command_byte < 0 THEN [ok |-> TRUE, bytes |-> <<>>]
    ELSE PackedTag(command_byte, PackArgs(command_byte, TagArgs(token)))

EncodeTag(token) == EncodeTagAs(token, REVERSE_CONTROL_CODES(Templated(token)))

\* str.split(' '): the stretches between one space and the next
SplitSpaces(t) ==
    LET spaces == {k \in 1..Len(t) : t[k] = " "}
        n == Cardinality(spaces)
        at(k) == IF k = 0 THEN 0
                 ELSE IF k > n THEN Len(t) + 1
                 ELSE CHOOSE p \in spaces : Cardinality({q \in spaces : q < p}) = k - 1
    IN [k \in 1..(n + 1) |-> SubSeq(t, at(k - 1) + 1, at(k) - 1)]

IsByte(b) == b >= 0

\* the bytes of the characters of a word that the map has (lines 420-422)
MappedBytes(word) == SelectSeq([k \in 1..Len(word) |-> REVERSE_CHARACTER_MAP(word[k])], IsByte)

\* char_count after those bytes (lines 424-427): it restarts at a line
\* break (the byte 0xCD of "\n") and goes up by one at every other byte
CountChars(bytes, char_count) ==
    [bytes |-> bytes,
     char_count |-> IF \E k \in 1..Len(bytes) : bytes[k] = 205
                    THEN Len(bytes) - MaxOf({k \in 1..Len(bytes) : bytes[k] = 205})
                    ELSE char_count + Len(bytes)]

\* the characters of one word (lines 420-429): [bytes, char_count]
EncodeChars(word, char_count) == CountChars(MappedBytes(word), char_count)

\* the column budget of a line (line 408)
LINE_LIMIT == 30

\* the bytes before a word, then the word
LeadThen(lead, w) == [bytes |-> lead \o w.bytes, char_count |-> w.char_count]

\* an encoder that wraps a line that would be exactly LINE_LIMIT columns long
EncodeWord_eager(word, word_idx, char_count) ==
    LET space_needed == IF word_idx > 0 /\ char_count > 0 THEN 1 ELSE 0
        wrap == char_count > 0 /\ char_count + space_needed + Len(word) >= LINE_LIMIT
    IN LeadThen(IF wrap THEN <<205>> ELSE IF space_needed > 0 THEN <<32>> ELSE <<>>,
                EncodeChars(word, IF wrap THEN 0 ELSE char_count + space_needed))

\* an encoder that puts no space between the words of a line
EncodeWord_unspaced(word, word_idx, char_count) ==
    LET space_needed == IF word_idx > 0 /\ char_count > 0 THEN 1 ELSE 0
        wrap == char_count > 0 /\ char_count + space_needed + Len(word) > LINE_LIMIT
    IN LeadThen(IF wrap THEN <<205>> ELSE <<>>,
                EncodeChars(word, IF wrap THEN 0 ELSE char_count))

\* a word, the word_idx-th (0-based) of its text token, char_count
\* characters on the line before it (lines 403-429): [bytes, char_count]
EncodeWord(word, word_idx, char_count) ==
    LET space_needed == IF word_idx > 0 /\ char_count > 0 THEN 1 ELSE 0
        wrap == char_count > 0 /\ char_count + space_needed + Len(word) > LINE_LIMIT
    IN LeadThen(IF wrap THEN <<205>> ELSE IF space_needed > 0 THEN <<32>> ELSE <<>>,
                EncodeChars(word, IF wrap THEN 0 ELSE char_count + space_needed))

\* the words from the word_idx-th on, each as [bytes, char_count]
RECURSIVE WordsFrom(_, _, _)
RECURSIVE WordsAfter(_, _, _)
WordsFrom(words, word_idx, char_count) ==
    IF word_idx >= Len(words) THEN <<>>
    ELSE WordsAfter(words, word_idx, EncodeWord(words[word_idx + 1], word_idx, char_count))

WordsAfter(words, word_idx, w) == <<w>> \o WordsFrom(words, word_idx + 1, w.char_count)

WordsResult(ws, char_count) ==
    [bytes |-> Concat([k \in 1..Len(ws) |-> ws[k].bytes]),
     char_count |-> IF ws = <<>> THEN char_count ELSE ws[Len(ws)].char_count]

\* the words of one text token (lines 402-429): [bytes, char_count]
EncodeWords(words, char_count) == WordsResult(WordsFrom(words, 0, char_count), char_count)

\* r"<[^>]+>" at index k
TagEnd(t, k) ==
    IF t[k] = "<" /\ IndexFrom(t, ">", k + 1) > k + 1 THEN IndexFrom(t, ">", k + 1) ELSE 0

NonEmpty(token) == token # <<>>

\* re.split(r'(<[^>]+>)', text) without its empty tokens
Tokenize(t) == SelectSeq(Pieces(TagEnd, t), NonEmpty)

\* token.startswith('<') and token.endswith('>')
IsTagToken(token) == token[1] = "<" /\ token[Len(token)] = ">"

TagResult(tag, char_count) == [ok |-> tag.ok, bytes |-> tag.bytes, char_count |-> char_count]

TextResult(w) == [ok |-> TRUE, bytes |-> w.bytes, char_count |-> w.char_count]

\* one token (lines 368-429): [ok, bytes, char_count]; ok FALSE when packing raised
EncodeToken(token, char_count) ==
    IF IsTagToken(token) THEN TagResult(EncodeTag(token), char_count)
    ELSE TextResult(EncodeWords(SplitSpaces(token), char_count))

\* the tokens from the k-th on, each as [ok, bytes, char_count]
RECURSIVE TokensFrom(_, _, _)
RECURSIVE TokensAfter(_, _, _)
TokensFrom(tokens, k, char_count) ==
    IF k > Len(tokens) THEN <<>>
    ELSE TokensAfter(tokens, k, EncodeToken(tokens[k], char_count))

TokensAfter(tokens, k, out) == <<out>> \o TokensFrom(tokens, k + 1, out.char_count)

\* an encoder that returns the bytes of the tokens without the closing NUL
Encoded_unterminated(outs) ==
    IF \A k \in 1..Len(outs) : outs[k].ok
    THEN [ok |-> TRUE, bytes |-> Concat([k \in 1..Len(outs) |-> outs[k].bytes])]
    ELSE [ok |-> FALSE, bytes |-> <<>>]

\* the bytes of all tokens and the closing NUL (line 431), unless one raised
Encoded(outs) ==
    IF \A k \in 1..Len(outs) : outs[k].ok
    THEN [ok |-> TRUE, bytes |-> Append(Concat([k \in 1..Len(outs) |-> outs[k].bytes]), 0)]
    ELSE [ok |-> FALSE, bytes |-> <<>>]

\* encode_ac_text(text): [ok, bytes]; ok FALSE (and no bytes) when it raises
encode_ac_text(text) ==
    Encoded(TokensFrom(Tokenize(normalize_visible_text(normalize_control_tags(text))), 1, 0))

(***************************************************************************)
(* The codec taken round: a well-formed byte stream b is decoded, the text *)
(* encoded again, and the result decoded once more.  b is made of at most  *)
(* MaxUnits units (a command of the table with its argument bytes, or a    *)
(* glyph byte of the character map) and the closing NUL.                   *)
(***************************************************************************)
MaxUnits == 2

\* glyphs "H", "i", " " and the line break; Pause, Press A, Color Line, Set
\* Jump, Color for chars, Player Emotion, NPC Expression, Set Demo Order,
\* Rand Jump 2, Play Music, Play Sound Effect
WellFormedUnits ==
    { <<72>>, <<105>>, <<32>>, <<205>>,
      <<PREFIX_BYTE, 3, 10>>, <<PREFIX_BYTE, 4>>, <<PREFIX_BYTE, 5, 255, 0, 0>>,
      <<PREFIX_BYTE, 14, 18, 52>>, <<PREFIX_BYTE, 80, 1, 2, 3, 4>>,
      <<PREFIX_BYTE, 8, 0, 0, 1>>, <<PREFIX_BYTE, 9, 0, 0, 1>>,
      <<PREFIX_BYTE, 10, 1, 2, 3>>, <<PREFIX_BYTE, 19, 0, 1, 0, 2>>,
      <<PREFIX_BYTE, 86, 0, 0>>, <<PREFIX_BYTE, 89, 1>> }

WellFormedStreams ==
    { Append(Concat(us), 0) : us \in UNION { [1..n -> WellFormedUnits] : n \in 0..MaxUnits } }

CodecInit ==
    /\ platform \in Platforms
    /\ exited = FALSE
    /\ connected = FALSE
    /\ gamecube_base = NoAddr
    /\ is_connected = FALSE
    /\ api = NoCall
    /\ cstage = "bytes"
    /\ cbytes \in WellFormedStreams
    /\ ctext = <<>>
    /\ cenc = <<>>
    /\ ctext2 = <<>>
    /\ cenc2 = <<>>
    /\ ccut = 0
    /\ once = NoRead
    /\ WatchIdle

\* t = parse_ac_text(b)
CodecDecode ==
    /\ cstage = "bytes"
    /\ ctext' = parse_ac_text(cbytes)
    /\ cstage' = IF ParseRaises(cbytes) THEN "unparsed" ELSE "text"
    /\ UNCHANGED <<ipcVars, watchVars, cbytes, cenc, ctext2, cenc2, ccut, once>>

\* encode_ac_text(t): its bytes, or the exception it raises
CodecEncode ==
    /\ cstage = "text"
    /\ \E e \in {encode_ac_text(ctext)} :
          /\ cenc' = e.bytes
          /\ cstage' = IF e.ok THEN "encoded" ELSE "raised"
    /\ UNCHANGED <<ipcVars, watchVars, cbytes, ctext, ctext2, cenc2, ccut, once>>

\* parse_ac_text(encode_ac_text(t))
CodecDecodeAgain ==
    /\ cstage = "encoded"
    /\ ctext2' = parse_ac_text(cenc)
    /\ cstage' = "again"
    /\ UNCHANGED <<ipcVars, watchVars, cbytes, ctext, cenc, cenc2, ccut, once>>

CodecNext == CodecDecode \/ CodecEncode \/ CodecDecodeAgain

SpecCodec == CodecInit /\ [][CodecNext]_vars

(***************************************************************************)
(* Claims about the codec.                                                 *)
(***************************************************************************)
IsNotBreak(c) == c # "\n"

\* a text without its line breaks
WithoutBreaks(t) == SelectSeq(t, IsNotBreak)

\* C9: for a text t of canonical tags (as parse_ac_text writes them) and
\* mapped characters, encode_ac_text(t) returns and parse_ac_text of it is t
\* again, tag for tag with the same arguments and character for character,
\* line breaks apart.
C9_TextRoundTrip ==
    /\ cstage # "raised"
    /\ cstage = "again" => WithoutBreaks(ctext2) = WithoutBreaks(ctext)

IsNotWrapByte(b) == b # 205

\* a byte stream without the line-break glyph bytes that stand between its
\* commands (argument bytes are left as they are)
WithoutWraps(data) ==
    LET at == ParseSteps(data, 0)
        unit(k) == SubSeq(data, at[k].at + 1, IF k < Len(at) THEN at[k + 1].at ELSE Len(data))
    IN Concat([k \in 1..Len(at) |->
                  IF data[at[k].at + 1] = PREFIX_BYTE THEN unit(k) ELSE SelectSeq(unit(k), IsNotWrapByte)])

\* C10: for a well-formed, NUL-terminated byte stream b,
\* encode_ac_text(parse_ac_text(b)) returns b again up to line-break bytes:
\* every command byte, argument byte and other glyph byte of b, in order.
C10_BytesRoundTrip ==
    /\ cstage # "raised"
    /\ cstage \in {"encoded", "again"} => WithoutWraps(cenc) = WithoutWraps(cbytes)

(***************************************************************************)
(* encode_ac_text on texts given to it directly, then the result decoded   *)
(* and encoded once more.  The texts are the samples below, the canonical  *)
(* tags (what parse_ac_text writes for one command with its argument       *)
(* bytes) and lines of at most MaxWords words around the column budget.    *)
(***************************************************************************)
MaxWords == 2

\* sample_text of demo_text_encoding (demo.py:27)
DEMO_TEXT == <<"H", "e", "l", "l", "o", "!", " ", "<", "N", "P", "C", " ", "E", "x", "p", "r", "e", "s", "s", "i", "o", "n", " ", "[", "0", "0", "]", " ", "[", "H", "a", "p", "p", "y", "]", ">", " ", "H", "o", "w", " ", "a", "r", "e", " ", "y", "o", "u", " ", "t", "o", "d", "a", "y", "?">>

\* the empty text, literals (one with a character the map lacks), tags the
\* table has, tags it lacks, arguments that do not fit, a tag after 28 columns
SampleTexts ==
    { <<>>, DEMO_TEXT,
      <<"H", "e", "l", "l", "o">>,
      <<"H", "i", " ", "t", "h", "e", "r", "e">>,
      <<"c", "a", "f", "u00E2", "u0082", "u00AC", " ", "o", "k">>,
      <<"H", "i", " ", "<", "B", "o", "g", "u", "s", " ", "T", "a", "g", ">", " ", "t", "h", "e", "r", "e">>,
      <<"<", "B", "o", "g", "u", "s", " ", "[", "0", "1", "]", ">">>,
      <<"<", "P", "a", "u", "s", "e", " ", "0", "A", ">">>,
      <<"<", "P", "a", "u", "s", "e", "u2003", "0", "A", ">">>,
      <<"<", "P", "a", "u", "s", "e", " ", "[", "1", "F", "F", "]", ">">>,
      <<"<", "P", "l", "a", "y", " ", "S", "o", "u", "n", "d", " ", "E", "f", "f", "e", "c", "t", " ", "[", "H", "a", "p", "p", "y", "]", ">">>,
      <<"<", "N", "P", "C", " ", "E", "x", "p", "r", "e", "s", "s", "i", "o", "n", " ", "[", "0", "0", "]", " ", "[", "0", "0", "0", "A", "]", ">">>,
      <<"<", "C", "o", "l", "o", "r", " ", "F", "F", "0", "0", "0", "0", ">", "R", "e", "d">>,
      <<"O", "k", "<", "E", "n", "d", " ", "C", "o", "n", "v", "e", "r", "s", "a", "t", "i", "o", "n", ">">>,
      <<"B", "y", "e", "<", "P", "r", "e", "s", "s", " ", "A", ">", "<", "C", "l", "e", "a", "r", " ", "T", "e", "x", "t", ">">>,
      <<"a", "a", "a", "a", "a", "a", "a", "a", "a", "a", "a", "a", "a", "a", "a", "a", "a", "a", "a", "a", "a", "a", "a", "a", "a", "a", "a", "a", "<", "P", "r", "e", "s", "s", " ", "A", ">", "b", "c", "d">> }

\* one command of the table with its argument bytes: End Conversation,
\* Pause, Press A, Color Line, Set Jump, Color for chars, Player Emotion
\* (Surprised), NPC Expression (Happy, Glare), Set Demo Order, Rand Jump 2,
\* Play Music, Play Sound Effect
CanonicalUnits ==
    { <<PREFIX_BYTE, 0>>, <<PREFIX_BYTE, 3, 10>>, <<PREFIX_BYTE, 4>>, <<PREFIX_BYTE, 5, 255, 0, 0>>,
      <<PREFIX_BYTE, 14, 18, 52>>, <<PREFIX_BYTE, 80, 1, 2, 3, 4>>,
      <<PREFIX_BYTE, 8, 0, 0, 2>>, <<PREFIX_BYTE, 9, 0, 0, 10>>, <<PREFIX_BYTE, 9, 1, 0, 1>>,
      <<PREFIX_BYTE, 10, 1, 2, 3>>, <<PREFIX_BYTE, 19, 0, 1, 0, 2>>,
      <<PREFIX_BYTE, 86, 0, 0>>, <<PREFIX_BYTE, 89, 1>> }

\* the tag parse_ac_text writes for each
CanonicalTags == { parse_ac_text(u) : u \in CanonicalUnits }

Word(n) == [k \in 1..n |-> "a"]

\* words of 0, 1, 14, 15 and 29 columns, and one with a line break in it
WrapWords == { <<>>, Word(1), Word(14), Word(15), Word(29), Word(14) \o <<"\n", "a">> }

\* " ".join(words)
RECURSIVE JoinWords(_)
JoinWords(words) ==
    IF Len(words) = 0 THEN <<>>
    ELSE IF Len(words) = 1 THEN words[1]
    ELSE words[1] \o <<" ">> \o JoinWords(SubSeq(words, 2, Len(words)))

WrapTexts == { JoinWords(ws) : ws \in UNION { [1..n -> WrapWords] : n \in 1..MaxWords } }

\* test_text of test_basic_functionality (test_setup.py:89)
TEST_TEXT == <<"H", "e", "l", "l", "o", ",", " ", "w", "o", "r", "l", "d", "!">>

\* plain sentences: the test's, one with comparison signs, one longer than a line
PlainSamples ==
    { TEST_TEXT,
      <<"I", "s", " ", "1", " ", "<", " ", "2", " ", ">", " ", "0", "?">>,
      <<"T", "h", "e", " ", "q", "u", "i", "c", "k", " ", "b", "r", "o", "w", "n", " ", "f", "o", "x", " ", "j", "u", "m", "p", "s", " ", "o", "v", "e", "r", " ", "t", "h", "e", " ", "l", "a", "z", "y", " ", "d", "o", "g", ".">> }

\* a greeting that opens with the inverted exclamation mark, the character
\* of byte 0x00 in CHARACTER_MAP (line 32)
HOLA_TEXT == <<"u00A1", "H", "o", "l", "a", "!">>

InputTexts == SampleTexts \cup PlainSamples \cup {HOLA_TEXT} \cup CanonicalTags \cup WrapTexts

EncodeInit ==
    /\ platform \in Platforms
    /\ exited = FALSE
    /\ connected = FALSE
    /\ gamecube_base = NoAddr
    /\ is_connected = FALSE
    /\ api = NoCall
    /\ cstage = "text"
    /\ cbytes = <<>>
    /\ ctext \in InputTexts
    /\ cenc = <<>>
    /\ ctext2 = <<>>
    /\ cenc2 = <<>>
    /\ ccut = 0
    /\ once = NoRead
    /\ WatchIdle

\* encode_ac_text(parse_ac_text(encode_ac_text(t))): its bytes, or the exception it raises
CodecEncodeAgain ==
    /\ cstage = "again"
    /\ \E e \in {encode_ac_text(ctext2)} :
          /\ cenc2' = e.bytes
          /\ cstage' = IF e.ok THEN "twice" ELSE "raised2"
    /\ UNCHANGED <<ipcVars, watchVars, cbytes, ctext, cenc, ctext2, ccut, once>>

EncodeNext == CodecEncode \/ CodecDecodeAgain \/ CodecEncodeAgain

SpecEncode == EncodeInit /\ [][EncodeNext]_vars

\* encode_ac_text(ctext) has returned cenc
EncodeReturned == cstage \in {"encoded", "again", "twice", "raised2"}

\* the text is one tag and nothing else
IsOneTag(text) == text # <<>> /\ Tokenize(text) = <<text>> /\ IsTagToken(text)

\* C11: when the text is one tag that resolves to a command c, the bytes
\* encode returns are the prefix 0x7F, c, exactly CODE_ARG_COUNT[c] argument
\* bytes and the closing NUL, and decode's step at the tag consumes exactly
\* the prefix, c and those argument bytes.
C11_TagBytesMatchArgCount ==
    (EncodeReturned /\ IsOneTag(ctext) /\ REVERSE_CONTROL_CODES(Templated(ctext)) >= 0) =>
        \E c \in {REVERSE_CONTROL_CODES(Templated(ctext))} :
            /\ Len(cenc) = 2 + NumArgs(c) + 1
            /\ cenc[1] = PREFIX_BYTE /\ cenc[2] = c /\ cenc[Len(cenc)] = 0
            /\ c # 0 => ParseStep(cenc, 0).next = 2 + NumArgs(c)

\* the tokens encode_ac_text splits a text into
TokensOf(text) == Tokenize(normalize_visible_text(normalize_control_tags(text)))

\* a tag token that resolves to no command
IsUnknownTag(token) == IsTagToken(token) /\ REVERSE_CONTROL_CODES(Templated(token)) < 0

NotUnknownTag(token) == ~IsUnknownTag(token)

\* C12: encode_ac_text raises for no text, and an unknown tag is left out
\* of the bytes while the tokens around it are encoded as they are without it.
C12_EncodeNeverAborts ==
    /\ cstage # "raised"
    /\ EncodeReturned =>
          \E tokens \in {TokensOf(ctext)} :
              cenc = Encoded(TokensFrom(SelectSeq(tokens, NotUnknownTag), 1, 0)).bytes

(***************************************************************************)
(* parse_ac_text on byte streams of any shape: a leading part p of whole   *)
(* units, then a tail of at most MaxTail bytes that may hold a stop point, *)
(* a truncated code, an unknown command or an unmapped byte.               *)
(***************************************************************************)
MaxTail == 3

END_CONVERSATION == <<"<", "E", "n", "d", " ", "C", "o", "n", "v", "e", "r", "s", "a", "t", "i", "o", "n", ">">>

\* nothing; "H"; Player Emotion (Surprised), whose first argument bytes are
\* zero; "H", Pause, a line break; Rand Jump 2
DecodePrefixes ==
    { <<>>, <<72>>, <<PREFIX_BYTE, 8, 0, 0, 2>>, <<72, PREFIX_BYTE, 3, 10, 205>>,
      <<PREFIX_BYTE, 19, 0, 1, 0, 2>> }

\* NUL, the prefix byte, "H", the bytes of the commands Pause (one argument
\* byte) and Rand Jump 2 (four), and 0xFF, which is no glyph and no command
TailBytes == {0, PREFIX_BYTE, 72, 3, 19, 255}

Tails == UNION { [1..n -> TailBytes] : n \in 0..MaxTail }

\* sample_dialogue of demo_text_parsing (demo.py:15):
\* 7F 08 00 00 02 00 7F 09 00 00 0A 00 "Hello there! " 7F 0C 00 00 00 00
sample_dialogue ==
    <<PREFIX_BYTE, 8, 0, 0, 2, 0, PREFIX_BYTE, 9, 0, 0, 10, 0,
      72, 101, 108, 108, 111, 32, 116, 104, 101, 114, 101, 33, 32,
      PREFIX_BYTE, 12, 0, 0, 0, 0>>

\* what follows the first tag of sample_dialogue
DEMO_TAIL == SubSeq(sample_dialogue, 6, Len(sample_dialogue))

\* what follows the first tag in the stream
\* 7F 08 00 00 02 00 7F 09 00 00 0A 00 "Hello" 00: sample_dialogue up to
\* "Hello", closed by a NUL
HELLO_TAIL == SubSeq(sample_dialogue, 6, 17) \o <<0>>

DecodeInputs ==
    { [p |-> p, t |-> t] : p \in DecodePrefixes, t \in Tails }
        \cup { [p |-> <<PREFIX_BYTE, 8, 0, 0, 2>>, t |-> t] : t \in {DEMO_TAIL, HELLO_TAIL} }

DecodeInit ==
    /\ platform \in Platforms
    /\ exited = FALSE
    /\ connected = FALSE
    /\ gamecube_base = NoAddr
    /\ is_connected = FALSE
    /\ api = NoCall
    /\ cstage = "bytes"
    /\ \E inp \in DecodeInputs :
          /\ cbytes = inp.p \o inp.t
          /\ ccut = Len(inp.p)
    /\ once = NoRead
    /\ ctext = <<>>
    /\ cenc = <<>>
    /\ ctext2 = <<>>
    /\ cenc2 = <<>>
    /\ WatchIdle

DecodeNext == CodecDecode

SpecDecode == DecodeInit /\ [][DecodeNext]_vars

\* the leading part of the stream and what follows it
LeadPart == SubSeq(cbytes, 1, ccut)

TailPart == SubSeq(cbytes, ccut + 1, Len(cbytes))

\* C13: parse_ac_text raises for no byte stream, and at every read
\* position its loop either ends or moves to a later position within the stream.
C13_DecodeTotal ==
    /\ cstage # "unparsed"
    /\ \A i \in 0..(Len(cbytes) - 1) :
          \E step \in {ParseStep(cbytes, i)} :
              step.next = -1 \/ (step.next > i /\ step.next <= Len(cbytes))

\* a stream with an unmapped byte and a truncated code has been decoded
C13_Witness ==
    /\ cstage = "text"
    /\ cbytes = <<72, 255, PREFIX_BYTE, 3>>
    /\ ctext = <<"H", "[", "?", "F", "F", "]", "<", "M", "a", "l", "f", "o", "r", "m", "e", "d", " ", "C", "o", "d", "e", " ", "0", "x", "0", "3", ">">>

NulStop == Len(TailPart) >= 1 /\ TailPart[1] = 0

TerminatorStop == Len(TailPart) >= 2 /\ TailPart[1] = PREFIX_BYTE /\ TailPart[2] = 0

\* C14: when the tail starts with a zero byte in glyph position the text is
\* that of the leading part alone and of the leading part with the zero
\* byte; when it starts with 7F 00 the text is that of the leading part
\* followed by the end-of-conversation tag; whatever follows the stop.
C14_StopIgnoresSuffix ==
    cstage = "text" =>
        /\ NulStop => \E t \in {parse_ac_text(LeadPart)} :
                          ctext = t /\ parse_ac_text(Append(LeadPart, 0)) = t
        /\ TerminatorStop => \E t \in {parse_ac_text(LeadPart)} :
                          /\ ctext = t \o END_CONVERSATION
                          /\ parse_ac_text(LeadPart \o <<PREFIX_BYTE, 0>>) = ctext

\* a stream with bytes after its zero byte, and one with bytes after its
\* terminator command, have been decoded
C14_Witness ==
    /\ cstage = "text"
    /\ \/ cbytes = <<72, 0, 72, PREFIX_BYTE>> /\ ccut = 1 /\ ctext = <<"H">>
       \/ cbytes = <<72, PREFIX_BYTE, 0, 72>> /\ ccut = 1 /\ ctext = <<"H">> \o END_CONVERSATION

\* the tail is a command other than the terminator with fewer argument
\* bytes than CODE_ARG_COUNT asks for before the end of the stream
TruncatedCode ==
    /\ Len(TailPart) >= 2 /\ TailPart[1] = PREFIX_BYTE /\ TailPart[2] # 0
    /\ Len(TailPart) - 2 < NumArgs(TailPart[2])

\* "<Malformed Code 0xNN>" with the two upper-case hexadecimal digits of the byte
Placeholder(byte) ==
    <<"<", "M", "a", "l", "f", "o", "r", "m", "e", "d", " ", "C", "o", "d", "e", " ", "0", "x">> \o <<HEX_DIGITS[(byte \div 16) + 1], HEX_DIGITS[(byte % 16) + 1], ">">>

\* C15: when the stream ends in a truncated code, the text is that of the
\* leading part followed by one placeholder that names the command byte,
\* and nothing after it.
C15_TruncatedCode ==
    (cstage \in {"text", "unparsed"} /\ TruncatedCode) =>
        /\ cstage = "text"
        /\ \E t \in {parse_ac_text(LeadPart)} : ctext = t \o Placeholder(TailPart[2])

\* Rand Jump 2 with one of its four argument bytes, a prefix byte, has been decoded
C15_Witness ==
    /\ cstage = "text"
    /\ cbytes = <<72, PREFIX_BYTE, 19, PREFIX_BYTE>> /\ ccut = 1
    /\ ctext = <<"H", "<", "M", "a", "l", "f", "o", "r", "m", "e", "d", " ", "C", "o", "d", "e", " ", "0", "x", "1", "3", ">">>

\* the place of the first occurrence of s in t at or after index i, 0 without one
FindFrom(t, s, i) ==
    LET at == {k \in i..(Len(t) - Len(s) + 1) : SubSeq(t, k, k + Len(s) - 1) = s}
    IN IF at = {} THEN 0 ELSE MinOf(at)

\* a Player Emotion tag with the name, an NPC Expression tag with the name
\* after it, and the word after that
ThreeInOrder(t, emotion, expression, word) ==
    \E a \in {FindFrom(t, <<"<", "P", "l", "a", "y", "e", "r", " ", "E", "m", "o", "t", "i", "o", "n">>, 1)} :
    \E b \in {FindFrom(t, emotion \o <<"]", ">">>, a + 1)} :
    \E c \in {FindFrom(t, <<"<", "N", "P", "C", " ", "E", "x", "p", "r", "e", "s", "s", "i", "o", "n">>, b + 1)} :
    \E d \in {FindFrom(t, expression \o <<"]", ">">>, c + 1)} :
    \E e \in {FindFrom(t, word, d + 1)} :
        a > 0 /\ b > 0 /\ c > 0 /\ d > 0 /\ e > 0

\* C16: the text of 7F 08 00 00 02 00 7F 09 00 00 0A 00 48 65 6C 6C 6F 00
\* holds the Player Emotion tag of Surprised, then the NPC Expression tag of
\* Happy, then "Hello".
C16_DemoDecode ==
    (cstage = "text" /\ cbytes = <<PREFIX_BYTE, 8, 0, 0, 2>> \o HELLO_TAIL) =>
        ThreeInOrder(ctext, <<"S", "u", "r", "p", "r", "i", "s", "e", "d">>, <<"H", "a", "p", "p", "y">>, <<"H", "e", "l", "l", "o">>)

\* the bytes of mapped characters, one for one
Glyphs(t) == [k \in 1..Len(t) |-> REVERSE_CHARACTER_MAP(t[k])]

\* the units of a Player Emotion or NPC Expression command
NameUnits == { u \in CanonicalUnits : u[2] \in {8, 9} }

\* C17: encode_ac_text of the demo text returns the bytes of "Hello! ",
\* then 7F 09 00 00 0A, then the bytes of " How are you today?" and the
\* closing NUL, and decoding them gives the tag with the name Happy again;
\* and for every tag parse_ac_text writes with an emotion or expression
\* name, encode_ac_text returns the command, category and code it came from.
C17_NamesResolve ==
    /\ ctext = DEMO_TEXT =>
          /\ cstage # "raised"
          /\ EncodeReturned =>
                cenc = Glyphs(<<"H", "e", "l", "l", "o", "!", " ">>) \o <<PREFIX_BYTE, 9, 0, 0, 10>>
                           \o Glyphs(<<" ", "H", "o", "w", " ", "a", "r", "e", " ", "y", "o", "u", " ", "t", "o", "d", "a", "y", "?">>) \o <<0>>
          /\ cstage \in {"again", "twice", "raised2"} =>
                FindFrom(ctext2, <<"<", "N", "P", "C", " ", "E", "x", "p", "r", "e", "s", "s", "i", "o", "n">>, 1) > 0
                    /\ FindFrom(ctext2, <<"[", "H", "a", "p", "p", "y", "]", ">">>, 1) > 0
    /\ \A u \in NameUnits :
          ctext = parse_ac_text(u) =>
              /\ cstage # "raised"
              /\ EncodeReturned => cenc = Append(u, 0)

\* C18: for a canonical tag t whose encoding returned and was decoded and
\* encoded again, the second encoding returns too and its bytes are those
\* of the first.
C18_EncodeIdempotent ==
    (ctext \in CanonicalTags /\ cstage \in {"twice", "raised2"}) =>
        cstage = "twice" /\ cenc2 = cenc

\* the column after the bytes of a word that starts at column col
ColumnAfter(bytes, col) ==
    IF \E k \in 1..Len(bytes) : bytes[k] = 205
    THEN Len(bytes) - MaxOf({k \in 1..Len(bytes) : bytes[k] = 205})
    ELSE col + Len(bytes)

\* The lines as the wrap rule states them: before the k-th word, with col
\* characters on the line, a newline byte stands in place of the space when
\* the line is not empty and the space and the word would make it longer
\* than LINE_LIMIT; a space stands there when the word is not the first and
\* the line is not empty; nothing otherwise.
WrapLead(wrap, sep) == IF wrap THEN <<205>> ELSE IF sep = 1 THEN <<32>> ELSE <<>>

WrapNeeded(word, col, sep) == col > 0 /\ col + sep + Len(word) > LINE_LIMIT

RECURSIVE WrappedFrom(_, _, _)
RECURSIVE WrappedWord(_, _, _, _, _)
WrappedFrom(words, k, col) ==
    IF k > Len(words) THEN <<>>
    ELSE WrappedWord(words, k, col, IF k > 1 /\ col > 0 THEN 1 ELSE 0, MappedBytes(words[k]))

WrappedWord(words, k, col, sep, bytes) ==
    IF WrapNeeded(words[k], col, sep)
    THEN <<205>> \o bytes \o WrappedFrom(words, k + 1, ColumnAfter(bytes, 0))
    ELSE WrapLead(FALSE, sep) \o bytes \o WrappedFrom(words, k + 1, ColumnAfter(bytes, col + sep))

\* the text is one literal run
IsOneRun(tokens) == Len(tokens) = 1 /\ ~IsTagToken(tokens[1])

ContentOf(outs) == Concat([k \in 1..Len(outs) |-> outs[k].bytes])

\* C20: the bytes encode_ac_text returns are the bytes of the tokens of the
\* text followed by one zero byte, whatever the last token is.
C20_OneTerminator ==
    EncodeReturned =>
        \E content \in {ContentOf(TokensFrom(TokensOf(ctext), 1, 0))} :
            /\ Len(cenc) = Len(content) + 1
            /\ SubSeq(cenc, 1, Len(content)) = content
            /\ cenc[Len(cenc)] = 0

\* a text that ends in the end-of-conversation tag has been encoded: the
\* bytes of "Ok", the terminator command 7F 00 and the closing NUL
C20_Witness ==
    /\ EncodeReturned
    /\ ctext = <<"O", "k", "<", "E", "n", "d", " ", "C", "o", "n", "v", "e", "r", "s", "a", "t", "i", "o", "n", ">">>
    /\ cenc = <<79, 107, PREFIX_BYTE, 0, 0>>

(***************************************************************************)
(* The watch loop (watch_dialogue, ac_parser_encoder.py:496-637) as main   *)
(* starts it: one target, TARGET_ADDRESS, read PER_READ_SIZE bytes at a    *)
(* tick, include_speaker on.  A loop is a thread of the process that runs  *)
(* watch_dialogue; the gate GLOBAL_GENERATION_LOCK and the connection      *)
(* memory_ipc._ipc are shared by all of them, the three dicts are locals   *)
(* of each.  A cycle goes in steps: the tick that decides to generate,     *)
(* the entry into the gate with the loading write, the collaborator call,  *)
(* the encode-and-write that ends it and releases the gate, and the lines  *)
(* after the with block (header, last_text).                               *)
(***************************************************************************)
\* 0x81298360 (line 21)
TARGET_ADDRESS == Addr(33065, 33632)

\* 0x8129A3EA (line 443)
SPEAKER_ADDRESS == Addr(33065, 41962)

SPEAKER_READ_SIZE == 32

\* max(32, min(args.size, MAX_READ_SIZE)) for --size 32 or less (line 654)
PER_READ_SIZE == 32

SUPPRESS_SECONDS == 25

\* main passes include_speaker=True (line 654)
include_speaker == TRUE

loading_text == <<".", "<", "P", "a", "u", "s", "e", " ", "[", "0", "A", "]", ">", ".", "<", "P", "a", "u", "s", "e", " ", "[", "0", "A", "]", ">", ".", "<", "P", "a", "u", "s", "e", " ", "[", "0", "A", "]", ">", "<", "P", "r", "e", "s", "s", " ", "A", ">", "<", "C", "l", "e", "a", "r", " ", "T", "e", "x", "t", ">">>

\* memory_ipc._ipc with its reader
Ipc == [connected |-> connected, gamecube_base |-> gamecube_base, is_connected |-> is_connected]

\* memory_ipc.read_memory(gc_address, size): "data", "None" or "exit"
ModuleRead(plat, ipc, gc_address, size, os) ==
    ReadCall(plat, ipc.connected, ipc.gamecube_base, ipc.is_connected, gc_address, size, os).result

\* memory_ipc.write_memory(gc_address, data), data of size bytes: "True" or "False"
ModuleWrite(ipc, gc_address, size, os) ==
    WriteCall(ipc.connected, ipc.gamecube_base, ipc.is_connected, gc_address, size, os).result

\* memory_ipc.connect(): a new MemoryIPC, then its connect()
ConnectResult(found, out) ==
    [status |-> out.status,
     ipc |-> [connected |-> out.status = "ok", gamecube_base |-> out.base, is_connected |-> found]]

ModuleConnect(plat, found, regs) == ConnectResult(found, ConnectOutcome(plat, found, regs))

\* get_current_speaker(): what its read gives; "exit" is SystemExit
get_current_speaker(plat, ipc, os) ==
    ModuleRead(plat, ipc, SPEAKER_ADDRESS, SPEAKER_READ_SIZE, os)

\* write_dialogue_to_address: [status, ipc, bytes]; status is "True" or
\* "False" (its return value), "raise" (encode raised) or "exit"
\* (SystemExit); e is encode_ac_text(dialogue); env is what the operating
\* system answers: probe to the empty write, found and regs to a
\* reconnection, os to the write of the bytes
EncodeAndWrite(ipc, e, target_address, os) ==
    IF ~e.ok THEN [status |-> "raise", ipc |-> ipc, bytes |-> <<>>]
    ELSE [status |-> ModuleWrite(ipc, target_address, Len(e.bytes), os), ipc |-> ipc,
          bytes |-> e.bytes]

AfterConnect(c, e, target_address, os) ==
    IF c.status = "ok" THEN EncodeAndWrite(c.ipc, e, target_address, os)
    ELSE [status |-> IF c.status = "exit" THEN "exit" ELSE "False", ipc |-> c.ipc, bytes |-> <<>>]

write_dialogue_to_address(plat, ipc, e, target_address, env) ==
    IF ModuleWrite(ipc, target_address, 0, env.probe) = "False"
    THEN AfterConnect(ModuleConnect(plat, env.found, env.regs), e, target_address, env.os)
    ELSE EncodeAndWrite(ipc, e, target_address, env.os)

\* the watched bytes after data is written at their start
Overwrite(buf, data) ==
    IF Len(data) >= Len(buf) THEN SubSeq(data, 1, Len(buf))
    ELSE data \o SubSeq(buf, Len(data) + 1, Len(buf))

Stored(buf, w) == IF w.status = "True" THEN Overwrite(buf, w.bytes) ELSE buf

\* text != last_text_by_addr[addr]
Changed(text, last) == last # <<text>>

\* "<End Conversation>" in text
HasEndConversation(text) ==
    \E k \in 1..Len(text) :
        k + Len(END_CONVERSATION) - 1 <= Len(text)
        /\ SubSeq(text, k, k + Len(END_CONVERSATION) - 1) = END_CONVERSATION

\* a loop that generates whatever the deadline says
Suppressed_never(now_ts, until, text) == FALSE

\* lines 549-555: within the suppression window and the conversation has not ended
Suppressed(now_ts, until, text) == now_ts < until /\ ~HasEndConversation(text)

\* lines 556-569 and 621-634: [pc, last, until, gen] of the loop after the tick
\* (get_current_speaker raises no Exception: it gives None when its read gives
\* nothing, so the handler of lines 567-569 is never entered; SystemExit is
\* not an Exception and passes it)
Unsuppressed(text, last, until, gen, lk, lookup) ==
    IF ~gen /\ lk = NoLoop
    THEN [pc |-> IF lookup = "exit" THEN "exited" ELSE "acquire",
          last |-> last, until |-> until, gen |-> TRUE]
    ELSE [pc |-> IF lookup = "exit" THEN "exited" ELSE "tick",
          last |-> IF lookup = "exit" THEN last ELSE <<text>>, until |-> until, gen |-> gen]

\* a tick that leaves the deadline as it is when the conversation has ended
TickOutcome_keeps(pa, text, last, until, now_ts, gen, lk, lookup) ==
    IF ~(pa \/ Changed(text, last))
    THEN [pc |-> "tick", last |-> last, until |-> until, gen |-> gen]
    ELSE IF Suppressed(now_ts, until, text)
    THEN [pc |-> "tick", last |-> <<text>>, until |-> until, gen |-> gen]
    ELSE Unsuppressed(text, last, until, gen, lk, lookup)

\* lines 546-569 and 621-634 for the text read at a tick
TickOutcome(pa, text, last, until, now_ts, gen, lk, lookup) ==
    IF ~(pa \/ Changed(text, last))
    THEN [pc |-> "tick", last |-> last, until |-> until, gen |-> gen]
    ELSE IF Suppressed(now_ts, until, text)
    THEN [pc |-> "tick", last |-> <<text>>, until |-> until, gen |-> gen]
    ELSE Unsuppressed(text, last, IF now_ts < until THEN 0 ELSE until, gen, lk, lookup)

SetIpc(ipc) ==
    /\ connected' = ipc.connected
    /\ gamecube_base' = ipc.gamecube_base
    /\ is_connected' = ipc.is_connected

\* the locals of loop l after a step; a loop at "exited" was ended by SystemExit
SetLoop(l, newpc, last, gen, until, init, llm, bef, out) ==
    /\ pc' = [pc EXCEPT ![l] = newpc]
    /\ last_text_by_addr' = [last_text_by_addr EXCEPT ![l] = last]
    /\ generation_in_progress' = [generation_in_progress EXCEPT ![l] = gen]
    /\ suppress_until_by_addr' = [suppress_until_by_addr EXCEPT ![l] = until]
    /\ initial_text' = [initial_text EXCEPT ![l] = init]
    /\ llm_text' = [llm_text EXCEPT ![l] = llm]
    /\ before' = [before EXCEPT ![l] = bef]
    /\ outcome' = [outcome EXCEPT ![l] = out]
    /\ exited' = (exited \/ newpc = "exited")

TickApply(l, text, o) ==
    SetLoop(l, o.pc, o.last, o.gen, o.until, IF o.pc = "acquire" THEN text ELSE <<>>, <<>>,
            before[l], outcome[l])

TickRead(l, text, lookup) ==
    TickApply(l, text,
              TickOutcome(print_all, text, last_text_by_addr[l], suppress_until_by_addr[l], now,
                          generation_in_progress[l], lock, lookup))

\* SystemExit leaves the loop; "No data read" leaves everything as it was
TickLeave(l, newpc) ==
    SetLoop(l, newpc, last_text_by_addr[l], generation_in_progress[l], suppress_until_by_addr[l],
            <<>>, <<>>, before[l], outcome[l])

\* speaker, raw: what the reads of lines 521 and 541 give; lookup: the read
\* of line 566 or 625; text: parse_ac_text of the bytes read
TickStep(l, speaker, raw, lookup, text) ==
    IF speaker = "exit" \/ raw = "exit" THEN TickLeave(l, "exited")
    ELSE IF raw = "None" THEN TickLeave(l, "tick")
    ELSE TickRead(l, text, lookup)

\* one turn of the while loop up to the gate (lines 519-569, 621-635)
Tick(l) ==
    /\ pc[l] = "tick"
    /\ \E text \in {parse_ac_text(mem)} :
          \E os_s \in OsAnswers, os_r \in OsAnswers, os_g \in OsAnswers :
             TickStep(l, get_current_speaker(platform, Ipc, os_s),
                      ModuleRead(platform, Ipc, TARGET_ADDRESS, PER_READ_SIZE, os_r),
                      IF include_speaker THEN get_current_speaker(platform, Ipc, os_g) ELSE "None",
                      text)
    /\ UNCHANGED <<platform, connected, gamecube_base, is_connected, api, codecVars, mem, lock,
                   now, print_all, foreign>>

\* what the operating system answers during write_dialogue_to_address; a
\* reconnection finds the console memory where it was
WATCH_BASE == Addr(434560, 0)

WatchRegionLists ==
    { <<[addr |-> WATCH_BASE, size |-> Addr(4096, 0), prot |-> <<"r", "w", "x">>, probe |-> p]>> :
          p \in {"GAFE", "other", "refused"} }

\* the empty write goes through, or is refused and the reconnection finds
\* no process, or the process with one region
WriteEnvs ==
    { [probe |-> "ok", found |-> TRUE, regs |-> <<>>, os |-> o] : o \in OsAnswers }
    \cup { [probe |-> "refused", found |-> FALSE, regs |-> <<>>, os |-> o] : o \in OsAnswers }
    \cup [probe : {"refused"}, found : {TRUE}, regs : WatchRegionLists, os : OsAnswers]

LoadingEncoded == encode_ac_text(loading_text)

\* a gate that lets every loop in
CanEnter_always(lk) == TRUE

\* with GLOBAL_GENERATION_LOCK: the loop goes on when no loop holds the gate
CanEnter(lk) == lk = NoLoop

\* the loops other than l see the target written by somebody else
Touched(l, w) == [m \in DOMAIN foreign |-> foreign[m] \/ (m # l /\ w.status = "True")]

EnterWith(l, w) ==
    /\ SetIpc(w.ipc)
    /\ mem' = Stored(mem, w)
    /\ foreign' = Touched(l, w)
    /\ lock' = IF w.status = "exit" THEN NoLoop ELSE l
    /\ SetLoop(l, IF w.status = "exit" THEN "exited" ELSE "generate", last_text_by_addr[l],
               generation_in_progress[l], suppress_until_by_addr[l], initial_text[l], <<>>, mem,
               IF w.status = "exit" THEN "exit" ELSE "none")

\* lines 575-577: the gate is taken and the loading placeholder written
EnterCycle(l) ==
    /\ pc[l] = "acquire"
    /\ CanEnter(lock)
    /\ \E e \in {LoadingEncoded} :
          \E env \in WriteEnvs :
             EnterWith(l, write_dialogue_to_address(platform, Ipc, e, TARGET_ADDRESS, env))
    /\ UNCHANGED <<platform, api, codecVars, now, print_all>>

\* an end of cycle that releases the gate and leaves the flag set
EndCycle_flagged(l, res, last, until) ==
    /\ lock' = NoLoop
    /\ SetLoop(l, "header", last, TRUE, until, initial_text[l], <<>>, before[l], res)

\* lines 615-619 and the end of the with block: the flag is cleared and the
\* gate released; last and until are the values the try block left, and
\* res tells how it ended ("ok" is did_generate).  The loop goes on to the
\* lines after the with block
EndCycle(l, res, last, until) ==
    /\ lock' = NoLoop
    /\ SetLoop(l, "header", last, FALSE, until, initial_text[l], <<>>, before[l], res)

\* lines 621-634 after a cycle: lookup is the header's speaker read
HeaderWith(l, lookup) ==
    SetLoop(l, IF lookup = "exit" THEN "exited" ELSE "tick",
            IF outcome[l] = "ok" \/ lookup = "exit" THEN last_text_by_addr[l]
            ELSE <<initial_text[l]>>,
            generation_in_progress[l], suppress_until_by_addr[l], <<>>, <<>>, before[l],
            IF lookup = "exit" THEN "tail_exit" ELSE outcome[l])

\* the header is printed and, when not did_generate, last_text = text
Header(l) ==
    /\ pc[l] = "header"
    /\ \E os_t \in OsAnswers :
          HeaderWith(l, IF include_speaker THEN get_current_speaker(platform, Ipc, os_t) ELSE "None")
    /\ UNCHANGED <<platform, connected, gamecube_base, is_connected, api, codecVars, mem, lock,
                   now, print_all, foreign>>

\* SystemExit inside the try block: finally clears the flag, the with
\* statement releases the gate, and the loop is left
CycleExit(l) ==
    /\ lock' = NoLoop
    /\ SetLoop(l, "exited", last_text_by_addr[l], FALSE, suppress_until_by_addr[l], <<>>, <<>>,
               before[l], "exit")

\* generate_dialogue / generate_spotlight_dialogue: it raises, or returns a
\* text: "Yo", or "<Pause [1FF]>" whose argument does not fit a byte
CollaboratorOutcomes ==
    { [raised |-> TRUE, text |-> <<>>],
      [raised |-> FALSE, text |-> <<"Y", "o">>],
      [raised |-> FALSE, text |-> <<"<", "P", "a", "u", "s", "e", " ", "[", "1", "F", "F", "]", ">">>] }

GenerateWith(l, g) ==
    IF g.raised
    THEN EndCycle(l, "raise", last_text_by_addr[l], suppress_until_by_addr[l])
    ELSE /\ lock' = lock
         /\ SetLoop(l, "write", last_text_by_addr[l], generation_in_progress[l],
                    suppress_until_by_addr[l], initial_text[l], g.text, before[l], outcome[l])

\* lines 580-605: the collaborator is called
Generate(l) ==
    /\ pc[l] = "generate"
    /\ \E g \in CollaboratorOutcomes : GenerateWith(l, g)
    /\ UNCHANGED <<platform, connected, gamecube_base, is_connected, api, codecVars, mem, now,
                   print_all, foreign>>

\* predicted: parse_ac_text(encoded_combined)
WriteDone(l, predicted, w) ==
    /\ SetIpc(w.ipc)
    /\ mem' = Stored(mem, w)
    /\ foreign' = Touched(l, w)
    /\ IF w.status = "exit" THEN CycleExit(l)
       ELSE EndCycle(l, "ok", <<predicted>>, now + SUPPRESS_SECONDS)

WriteRaised(l) ==
    /\ UNCHANGED <<connected, gamecube_base, is_connected, mem, foreign>>
    /\ EndCycle(l, "encode_error", last_text_by_addr[l], suppress_until_by_addr[l])

WriteWith(l, e, predicted, env) ==
    IF ~e.ok THEN WriteRaised(l)
    ELSE WriteDone(l, predicted, write_dialogue_to_address(platform, Ipc, e, TARGET_ADDRESS, env))

\* encode_ac_text(combined) and, unless it raised, parse_ac_text of its bytes
Predicted(e) == [e |-> e, predicted |-> IF e.ok THEN parse_ac_text(e.bytes) ELSE <<>>]

\* lines 606-619: encode, write, predict, then the end of the cycle
WriteGenerated(l) ==
    /\ pc[l] = "write"
    /\ \E c \in {Predicted(encode_ac_text(llm_text[l]))} :
          \E env \in WriteEnvs : WriteWith(l, c.e, c.predicted, env)
    /\ UNCHANGED <<platform, api, codecVars, now, print_all>>

\* the watched bytes with a dialogue of the game at their start
Padded(data) == data \o [k \in 1..(PER_READ_SIZE - Len(data)) |-> 0]

\* "Hi", and "Ok<End Conversation>"
GameBuffers == { Padded(<<72, 105>>), Padded(<<79, 107, PREFIX_BYTE, 0>>) }

\* the game puts another dialogue at the target
GameWrite ==
    /\ \E b \in GameBuffers : b # mem /\ mem' = b
    /\ foreign' = [m \in DOMAIN foreign |-> TRUE]
    /\ UNCHANGED <<ipcVars, codecVars, lock, now, print_all, pc, last_text_by_addr,
                   generation_in_progress, suppress_until_by_addr, initial_text, llm_text,
                   before, outcome>>

MaxClockSteps == 2

\* the clock goes on by the length of the suppression window
PassTime ==
    /\ now < MaxClockSteps * SUPPRESS_SECONDS
    /\ now' = now + SUPPRESS_SECONDS
    /\ UNCHANGED <<ipcVars, codecVars, mem, lock, print_all, loopVars>>

\* the state after lines 509-515 in every loop, connected
WatchInit(loops) ==
    /\ platform \in Platforms
    /\ exited = FALSE
    /\ connected = TRUE
    /\ gamecube_base = WATCH_BASE
    /\ is_connected = TRUE
    /\ api = NoCall
    /\ CodecIdle
    /\ mem \in GameBuffers
    /\ lock = NoLoop
    /\ now = 0
    /\ print_all \in BOOLEAN
    /\ pc = [l \in loops |-> "tick"]
    /\ last_text_by_addr = [l \in loops |-> <<>>]
    /\ generation_in_progress = [l \in loops |-> FALSE]
    /\ suppress_until_by_addr = [l \in loops |-> 0]
    /\ initial_text = [l \in loops |-> <<>>]
    /\ llm_text = [l \in loops |-> <<>>]
    /\ before = [l \in loops |-> <<>>]
    /\ foreign = [l \in loops |-> FALSE]
    /\ outcome = [l \in loops |-> "none"]

\* a step of some loop of the process
AnyTick == \E l \in DOMAIN pc : Tick(l)

AnyEnterCycle == \E l \in DOMAIN pc : EnterCycle(l)

AnyGenerate == \E l \in DOMAIN pc : Generate(l)

AnyWriteGenerated == \E l \in DOMAIN pc : WriteGenerated(l)

AnyHeader == \E l \in DOMAIN pc : Header(l)

WatchNext ==
    AnyTick \/ AnyEnterCycle \/ AnyGenerate \/ AnyWriteGenerated \/ AnyHeader \/ GameWrite \/ PassTime

\* one watch loop, as main runs it
Spec == WatchInit({"L1"}) /\ [][WatchNext]_vars

\* two watch loops in the process, the game and the clock standing still
GateNext == AnyTick \/ AnyEnterCycle \/ AnyGenerate \/ AnyWriteGenerated \/ AnyHeader

SpecGate == WatchInit({"L1", "L2"}) /\ [][GateNext]_vars

(***************************************************************************)
(* The manual stop: KeyboardInterrupt is raised in the thread of the loop  *)
(* wherever it stands (lines 518 and 636-637).  It is not an Exception, so *)
(* the handler of line 615 lets it through; inside the try block of a      *)
(* cycle the finally clause clears the flag (618-619), the with statement  *)
(* releases the gate, and watch_dialogue returns.  A signal that arrives    *)
(* during a call of the operating system is raised when the call is over,  *)
(* at the line of the call: what the call did stays done and the           *)
(* statements after it are not run.  The stores of one turn are those of   *)
(* lines 551, 554, 560, 611, 613, 619 and 634 and the two writes of 577    *)
(* and 608; a stop is possible after each of them.                         *)
(***************************************************************************)
\* the signal is raised in the tick after line 551 has zeroed the deadline
\* (at the calls of line 559): the text read differs from last-seen or
\* print_all is on, the window is open, the conversation has ended
StopInTickWith(l, speaker, raw, text) ==
    /\ speaker # "exit"
    /\ raw = "data"
    /\ print_all \/ Changed(text, last_text_by_addr[l])
    /\ now < suppress_until_by_addr[l]
    /\ HasEndConversation(text)
    /\ SetLoop(l, "stopped", last_text_by_addr[l], generation_in_progress[l], 0, <<>>, <<>>,
               before[l], outcome[l])

StopInTick(l) ==
    /\ pc[l] = "tick"
    /\ \E text \in {parse_ac_text(mem)} :
          \E os_s \in OsAnswers, os_r \in OsAnswers :
             StopInTickWith(l, get_current_speaker(platform, Ipc, os_s),
                            ModuleRead(platform, Ipc, TARGET_ADDRESS, PER_READ_SIZE, os_r), text)
    /\ UNCHANGED <<platform, connected, gamecube_base, is_connected, api, codecVars, mem, lock,
                   now, print_all, foreign>>

\* the signal is raised at line 577, in write_dialogue_to_address(loading):
\* the gate was taken and is released, the flag of line 561 stays set (the
\* try block of 579 was not entered), and w is what the write has done
StopInLoadingWith(l, w) ==
    /\ w.status # "exit"
    /\ SetIpc(w.ipc)
    /\ mem' = Stored(mem, w)
    /\ foreign' = Touched(l, w)
    /\ lock' = NoLoop
    /\ SetLoop(l, "stopped", last_text_by_addr[l], generation_in_progress[l],
               suppress_until_by_addr[l], <<>>, <<>>, mem, "interrupt")

StopInLoadingWrite(l) ==
    /\ pc[l] = "acquire"
    /\ CanEnter(lock)
    /\ \E e \in {LoadingEncoded} :
          \E env \in WriteEnvs :
             StopInLoadingWith(l, write_dialogue_to_address(platform, Ipc, e, TARGET_ADDRESS, env))
    /\ UNCHANGED <<platform, api, codecVars, now, print_all>>

\* the signal is raised after the write of line 608 began: w is what the
\* write has done and last is last-seen at the signal; the deadline is not
\* armed, finally clears the flag and the gate is released
StopInWriteWith(l, w, last) ==
    /\ w.status # "exit"
    /\ SetIpc(w.ipc)
    /\ mem' = Stored(mem, w)
    /\ foreign' = Touched(l, w)
    /\ lock' = NoLoop
    /\ SetLoop(l, "stopped", last, FALSE, suppress_until_by_addr[l], <<>>, <<>>, before[l],
               "interrupt")

\* the signal is raised at line 608 or 610, in write_dialogue_to_address(combined)
\* or in parse_ac_text: lines 611-614 are not run
StopInWrite(l) ==
    /\ pc[l] = "write"
    /\ \E e \in {encode_ac_text(llm_text[l])} :
          /\ e.ok
          /\ \E env \in WriteEnvs :
                StopInWriteWith(l, write_dialogue_to_address(platform, Ipc, e, TARGET_ADDRESS, env),
                                last_text_by_addr[l])
    /\ UNCHANGED <<platform, api, codecVars, now, print_all>>

\* the signal is raised at line 613, in time.time(): line 611 has stored the
\* predicted text as last-seen, the deadline is not armed
StopAtDeadline(l) ==
    /\ pc[l] = "write"
    /\ \E c \in {Predicted(encode_ac_text(llm_text[l]))} :
          /\ c.e.ok
          /\ \E env \in WriteEnvs :
                StopInWriteWith(l, write_dialogue_to_address(platform, Ipc, c.e, TARGET_ADDRESS, env),
                                <<c.predicted>>)
    /\ UNCHANGED <<platform, api, codecVars, now, print_all>>

\* the signal is raised between two steps of the loop, or during a call
\* before which the step has stored nothing (a wait, a read, the collaborator,
\* the encoder)
StopBetween(l) ==
    /\ pc[l] \in {"tick", "acquire", "generate", "write", "header"}
    /\ lock' = IF lock = l THEN NoLoop ELSE lock
    /\ SetLoop(l, "stopped", last_text_by_addr[l],
               IF pc[l] \in {"generate", "write"} THEN FALSE ELSE generation_in_progress[l],
               suppress_until_by_addr[l], <<>>, <<>>, before[l],
               IF pc[l] \in {"generate", "write"} THEN "interrupt" ELSE outcome[l])
    /\ UNCHANGED <<platform, connected, gamecube_base, is_connected, api, codecVars, mem, now,
                   print_all, foreign>>

Stop(l) ==
    \/ StopBetween(l) \/ StopInTick(l) \/ StopInLoadingWrite(l)
    \/ StopInWrite(l) \/ StopAtDeadline(l)

AnyStop == \E l \in DOMAIN pc : Stop(l)

StopNext ==
    \/ AnyTick \/ AnyEnterCycle \/ AnyGenerate \/ AnyWriteGenerated \/ AnyHeader
    \/ GameWrite \/ PassTime \/ AnyStop

\* one watch loop that the user may stop
SpecStop == WatchInit({"L1"}) /\ [][StopNext]_vars

(***************************************************************************)
(* Claims about the watch loop.                                            *)
(***************************************************************************)
\* from the loading write to the end of the write of the generated text
InCycle(l) == pc[l] \in {"generate", "write"}

\* C3: at most one generation-and-write cycle is in progress at any time
\* in the process: a loop that has written the loading placeholder and has
\* not yet ended its cycle holds the gate, and no other loop is between its
\* loading write and the end of its cycle, so no other loop calls the
\* collaborator or writes the target meanwhile.
C3_OneCycleAtATime ==
    \A l \in DOMAIN pc :
        InCycle(l) => (lock = l /\ \A m \in DOMAIN pc \ {l} : ~InCycle(m))

\* one loop is about to call the collaborator, its loading placeholder in
\* memory, while another that decided to generate waits at the gate
C3_Witness ==
    \E l \in DOMAIN pc, m \in DOMAIN pc :
        /\ l # m /\ pc[l] = "generate" /\ pc[m] = "acquire" /\ lock = l
        /\ generation_in_progress[l] /\ generation_in_progress[m]
        /\ SubSeq(mem, 1, Len(LoadingEncoded.bytes)) = LoadingEncoded.bytes

\* C4: with print_all off and the target written by nobody but the loop
\* itself, a loop whose cycle has ended, generated or failed, starts no other
\* cycle: it is never again between the decision to generate and the end of
\* a cycle.
C4_NoSelfTrigger ==
    \A l \in DOMAIN pc :
        (~print_all /\ ~foreign[l] /\ outcome[l] \in {"ok", "raise", "encode_error"})
            => pc[l] \in {"tick", "header", "exited"}

\* the locals of loop l that a tick can change
TickLocals(l) ==
    <<pc[l], last_text_by_addr[l], generation_in_progress[l], suppress_until_by_addr[l]>>

\* C5: a tick of a loop that reads, before the target's suppression deadline,
\* a text that differs from last-seen and has no end-of-conversation tag,
\* stores that text as last-seen, starts no cycle (the loop stays at its
\* tick, flag and gate as they were) and leaves the target's bytes alone.
C5_SuppressedTick ==
    [][\A l \in DOMAIN pc :
          ( /\ pc[l] = "tick" /\ pc'[l] # "exited"
            /\ TickLocals(l)' # TickLocals(l)
            /\ now < suppress_until_by_addr[l]
            /\ Changed(parse_ac_text(mem), last_text_by_addr[l])
            /\ ~HasEndConversation(parse_ac_text(mem)) )
          => ( /\ last_text_by_addr'[l] = <<parse_ac_text(mem)>>
               /\ pc'[l] = "tick"
               /\ generation_in_progress'[l] = generation_in_progress[l]
               /\ suppress_until_by_addr'[l] = suppress_until_by_addr[l]
               /\ lock' = lock
               /\ mem' = mem )]_vars

\* before the deadline set by a generated cycle the game has put "Hi" at
\* the target and a tick has stored it as last-seen without generating
C5_Witness ==
    \E l \in DOMAIN pc :
        /\ pc[l] = "tick" /\ outcome[l] = "ok" /\ foreign[l]
        /\ now < suppress_until_by_addr[l]
        /\ mem \in GameBuffers
        /\ ~HasEndConversation(parse_ac_text(mem))
        /\ last_text_by_addr[l] = <<parse_ac_text(mem)>>
        /\ ~generation_in_progress[l] /\ lock = NoLoop

\* C6: after a cycle that the collaborator's raise or an encoding error
\* ended, the target's bytes are what they were when the cycle took the
\* gate, as long as nobody else has written the target.
C6_FailureLeavesBytes ==
    \A l \in DOMAIN pc :
        (outcome[l] \in {"raise", "encode_error"} /\ ~foreign[l]) => mem = before[l]

\* C7: no cycle ends with an exception leaving the watch loop, and after a
\* cycle in which the collaborator or the encoder raised the loop is back at
\* its tick with the target's flag cleared and the gate released.
C7_RaiseContained ==
    \A l \in DOMAIN pc :
        /\ outcome[l] # "exit"
        /\ (outcome[l] \in {"raise", "encode_error"} /\ pc[l] = "tick")
               => (~generation_in_progress[l] /\ lock # l)

\* C22: a manual stop signal ends polling only at a tick boundary: the loop
\* is stopped from its tick, never from inside a generation-and-write cycle,
\* so a cycle under way when the signal arrives runs to its end (the
\* collaborator call and the write of its result) before the loop exits.
C22_StopOnlyAtTick ==
    [][\A l \in DOMAIN pc : (pc'[l] = "stopped" /\ pc[l] # "stopped") => pc[l] = "tick"]_vars

\* letters, digits and the punctuation of ASCII (the character map has none
\* of the ten other marks: dollar, asterisk, brackets, backslash, caret,
\* backtick, braces, bar)
AsciiWordChars ==
    { "A", "B", "C", "D", "E", "F", "G", "H", "I", "J", "K", "L", "M", "N", "O", "P", "Q", "R", "S", "T", "U", "V", "W", "X", "Y", "Z", "a", "b", "c", "d", "e", "f", "g", "h", "i", "j", "k", "l", "m", "n", "o", "p", "q", "r", "s", "t", "u", "v", "w", "x", "y", "z", "0", "1", "2", "3", "4", "5", "6", "7", "8", "9" }
    \cup { "!", "\"", "#", "%", "&", "'", "(", ")", "+", ",", "-", ".", "/", ":", ";", "<", "=", ">", "?", "@", "_", "~" }

\* a letter, digit or punctuation mark of ASCII that the character map has
IsGlyphChar(c) == c \in AsciiWordChars /\ REVERSE_CHARACTER_MAP(c) >= 0

\* words of such characters, none empty, with single spaces between them,
\* and no token that encode_ac_text takes for a tag
IsPlainText(t) ==
    /\ t # <<>>
    /\ \A k \in 1..Len(t) : t[k] = " " \/ IsGlyphChar(t[k])
    /\ \A k \in 1..Len(SplitSpaces(t)) : SplitSpaces(t)[k] # <<>>
    /\ \A k \in 1..Len(Tokenize(t)) : ~IsTagToken(Tokenize(t)[k])

\* the words from the k-th on stand in t one after the other, from index i on
RECURSIVE WordsInOrder(_, _, _, _)
WordsInOrder(words, k, t, i) ==
    IF k > Len(words) THEN TRUE
    ELSE LET at == FindFrom(t, words[k], i)
         IN IF at = 0 THEN FALSE ELSE WordsInOrder(words, k + 1, t, at + Len(words[k]))

\* C23: for a tag-free text t of words of letters, digits and ASCII
\* punctuation of the character map with single spaces between them,
\* parse_ac_text(encode_ac_text(t)) has every word of t, in order, and is t
\* when t is at most 30 characters long.
C23_PlainRoundTrip ==
    (cstage \in {"again", "twice", "raised2"} /\ IsPlainText(ctext)) =>
        /\ WordsInOrder(SplitSpaces(ctext), 1, ctext2, 1)
        /\ Len(ctext) <= LINE_LIMIT => ctext2 = ctext

\* "Hello, world!" has gone round and come back as it was
C23_Witness ==
    /\ cstage = "again"
    /\ ctext = TEST_TEXT
    /\ IsPlainText(ctext)
    /\ ctext2 = ctext

\* C24: before the target's suppression deadline, a tick that reads changed
\* text with the end-of-conversation tag in it sets the deadline to zero and
\* handles the change as an unsuppressed one in that same tick: with no
\* cycle running (flag clear, gate free) the tick sets the flag and the
\* loop goes on to its cycle with that text.
C24_EndConversationLiftsWindow ==
    [][\A l \in DOMAIN pc :
          ( /\ pc[l] = "tick" /\ pc'[l] # "exited"
            /\ TickLocals(l)' # TickLocals(l)
            /\ now < suppress_until_by_addr[l]
            /\ Changed(parse_ac_text(mem), last_text_by_addr[l])
            /\ HasEndConversation(parse_ac_text(mem)) )
          => ( /\ suppress_until_by_addr'[l] = 0
               /\ (~generation_in_progress[l] /\ lock = NoLoop)
                     => ( /\ pc'[l] = "acquire"
                          /\ generation_in_progress'[l]
                          /\ initial_text'[l] = parse_ac_text(mem) ) )]_vars

\* inside the window of a generated cycle the game has ended the
\* conversation, and the tick that read it has lifted the deadline and
\* started a cycle
C24_Witness ==
    \E l \in DOMAIN pc :
        /\ pc[l] = "acquire" /\ outcome[l] = "ok"
        /\ now < SUPPRESS_SECONDS
        /\ suppress_until_by_addr[l] = 0
        /\ HasEndConversation(initial_text[l])
        /\ generation_in_progress[l]

\* C25: a cycle starts only on a tick whose decoded text differs from the
\* target's last-seen text, with print_all or without: a tick that reads a
\* text equal to last-seen starts no cycle, leaves last-seen, flag and
\* deadline as they were and writes nothing to the target (the bytes
\* change only under somebody else's write).
C25_UnchangedTextIsIdle ==
    [][\A l \in DOMAIN pc :
          ( /\ pc[l] = "tick" /\ pc'[l] # "exited"
            /\ ~Changed(parse_ac_text(mem), last_text_by_addr[l]) )
          => ( /\ pc'[l] # "acquire"
               /\ TickLocals(l)' = TickLocals(l)
               /\ (mem' # mem => foreign'[l]) )]_vars

\* C26: at every tick boundary the target's generation-in-progress flag is
\* clear: a loop that stands at its tick, whatever came before (no cycle, a
\* speaker lookup that gave nothing, a cycle that generated or failed), has
\* the flag off, so the next change can start a cycle.
C26_FlagClearAtTick ==
    \A l \in DOMAIN pc : pc[l] = "tick" => ~generation_in_progress[l]

\* a cycle in which the collaborator raised has ended and the loop is back
\* at its tick with the flag off and the gate free
C26_Witness ==
    \E l \in DOMAIN pc :
        /\ pc[l] = "tick" /\ outcome[l] = "raise"
        /\ ~generation_in_progress[l] /\ lock = NoLoop

\* C27: a cycle counts as generated (last-seen replaced by the predicted
\* text parse_ac_text(encode_ac_text(generated)), the deadline armed) only
\* when the write of the generated text to the target succeeded: at the end
\* of such a cycle the target holds the bytes of the generated text.
C27_GeneratedOnlyIfWritten ==
    [][\A l \in DOMAIN pc :
          ( /\ pc[l] = "write" /\ pc'[l] = "header"
            /\ outcome'[l] = "ok"
            /\ suppress_until_by_addr'[l] = now + SUPPRESS_SECONDS )
          => mem' = Overwrite(mem, encode_ac_text(llm_text[l]).bytes)]_vars

\* neither the NUL nor the escape prefix
IsPlainByte(b) == b # 0 /\ b # PREFIX_BYTE

\* C29: no literal character of the text makes encode_ac_text emit 0x00 or
\* 0x7F: the bytes of every token that is not a tag hold neither value, so
\* in the bytes returned for a text without tags the only such byte is the
\* closing NUL.
C29_LiteralsNeverEscape ==
    EncodeReturned =>
        \E tokens \in {TokensOf(ctext)} :
        \E outs \in {TokensFrom(tokens, 1, 0)} :
            /\ \A k \in 1..Len(tokens) :
                  ~IsTagToken(tokens[k]) =>
                      \A j \in 1..Len(outs[k].bytes) : IsPlainByte(outs[k].bytes[j])
            /\ (\A k \in 1..Len(tokens) : ~IsTagToken(tokens[k])) =>
                  \A j \in 1..(Len(cenc) - 1) : IsPlainByte(cenc[j])

(***************************************************************************)
(* _read_dialogue_once (ac_parser_encoder.py:480-493) as main calls it     *)
(* after memory_ipc.connect() (lines 658-663): chunks of chunk_size bytes  *)
(* are read from target_address on, for i in range(0, max_size,            *)
(* chunk_size).  The sizes are taken small; mem is the console memory from *)
(* the target on.                                                          *)
(***************************************************************************)
MaxSize == 6

MaxChunk == 3

\* end_markers of main (line 662): 7F 00 and 7F 0D
END_MARKERS == { <<PREFIX_BYTE, 0>>, <<PREFIX_BYTE, 13>> }

\* marker in chunk
Contains(chunk, marker) ==
    \E k \in 1..(Len(chunk) - Len(marker) + 1) : SubSeq(chunk, k, k + Len(marker) - 1) = marker

\* any(marker in chunk for marker in end_markers)
AnyMarkerIn(chunk) == \E marker \in END_MARKERS : Contains(chunk, marker)

\* line 491: the loop is left when the chunk just read holds a marker
ChunkEnds(full_data, chunk) == AnyMarkerIn(chunk)

\* the memory the longest read can reach: "H" everywhere, or with one end
\* marker at some place
OnceLen == MaxSize + MaxChunk - 1

OnceMemories ==
    { [k \in 1..OnceLen |-> 72] }
    \cup { [k \in 1..OnceLen |-> IF k = p THEN marker[1] ELSE IF k = p + 1 THEN marker[2] ELSE 72] :
              p \in 1..(OnceLen - 1), marker \in END_MARKERS }

OnceInit ==
    /\ platform \in Platforms
    /\ exited = FALSE
    /\ connected = TRUE
    /\ gamecube_base = WATCH_BASE
    /\ is_connected = TRUE
    /\ api = NoCall
    /\ cstage = "idle" /\ cbytes = <<>> /\ ctext = <<>> /\ cenc = <<>> /\ ctext2 = <<>>
    /\ cenc2 = <<>> /\ ccut = 0
    /\ once \in [stage : {"reading"}, max_size : 1..MaxSize, chunk_size : 1..MaxChunk, i : {0},
                 full_data : {<<>>}, reads : {0}, last : {"none"}]
    /\ mem \in OnceMemories
    /\ lock = NoLoop /\ now = 0 /\ print_all = FALSE
    /\ pc = <<>> /\ last_text_by_addr = <<>> /\ generation_in_progress = <<>>
    /\ suppress_until_by_addr = <<>> /\ initial_text = <<>> /\ llm_text = <<>>
    /\ before = <<>> /\ foreign = <<>> /\ outcome = <<>>

\* lines 487-492 after a chunk was read: it is added to full_data, and the
\* loop ends on a marker or when range(0, max_size, chunk_size) is used up
AfterChunk(r, chunk) ==
    LET hit == ChunkEnds(r.full_data, chunk) IN
    [r EXCEPT !.full_data = r.full_data \o chunk,
              !.i = IF hit THEN r.i ELSE r.i + r.chunk_size,
              !.stage = IF hit \/ r.i + r.chunk_size >= r.max_size THEN "returned" ELSE "reading"]

\* one turn of the for loop; res is what memory_ipc.read_memory gives:
\* "data", "None" (the loop is left, line 489) or "exit" (SystemExit)
ReadChunkWith(res, chunk) ==
    /\ once' = IF res = "exit" THEN [once EXCEPT !.stage = "exited", !.reads = @ + 1, !.last = res]
               ELSE IF res = "None"
               THEN [once EXCEPT !.stage = "returned", !.reads = @ + 1, !.last = res]
               ELSE AfterChunk([once EXCEPT !.reads = @ + 1, !.last = res], chunk)
    /\ exited' = (res = "exit")

ReadChunk ==
    /\ once.stage = "reading"
    /\ \E os \in OsAnswers :
          ReadChunkWith(ModuleRead(platform, Ipc, AddrAdd(TARGET_ADDRESS, once.i), once.chunk_size, os),
                        SubSeq(mem, once.i + 1, once.i + once.chunk_size))
    /\ UNCHANGED <<platform, connected, gamecube_base, is_connected, api, cstage, cbytes, ctext,
                   cenc, ctext2, cenc2, ccut, watchVars>>

OnceNext == ReadChunk

SpecOnce == OnceInit /\ [][OnceNext]_vars

\* ceil(a / b)
CeilDiv(a, b) == (a + b - 1) \div b

\* the places of data where an end marker is complete (the index of its
\* second byte)
MarkerEnds(data) ==
    { k \in 2..Len(data) : \E marker \in END_MARKERS : SubSeq(data, k - 1, k) = marker }

\* C30: _read_dialogue_once makes at most ceil(max_size / chunk_size) reads;
\* it reads nothing after the first chunk that completes an end marker in
\* the bytes read so far, wherever the marker lies with respect to the
\* chunks; and when it has returned, a marker is complete in the bytes it
\* returns, or its last read failed, or max_size bytes have been asked for.
C30_ReadStopsAtMarker ==
    once.stage # "idle" =>
        /\ once.reads <= CeilDiv(once.max_size, once.chunk_size)
        /\ \A k \in MarkerEnds(once.full_data) :
              Len(once.full_data) <= CeilDiv(k, once.chunk_size) * once.chunk_size
        /\ once.stage = "returned" =>
              \/ MarkerEnds(once.full_data) # {}
              \/ once.last = "None"
              \/ once.reads * once.chunk_size >= once.max_size
        /\ once.stage # "exited"
====
